---------------------------- MODULE Spec2Model ----------------------------
(***************************************************************************)
(* A model of the dashboard of joewinke/jat:                               *)
(*                                                                         *)
(*   - GET / DELETE /api/agents/sparkline: the request handler with its    *)
(*     in-memory TTL cache (specification Spec);                           *)
(*   - GET /api/orchestration: the join of agents, reservations and tasks  *)
(*     (specifications SpecOrch and, with dependency lists, SpecDeps);     *)
(*   - POST /api/orchestration: the assignment through the bd CLI          *)
(*     (specification SpecPost);                                           *)
(*   - getAgentActivitiesFromBeads (specification SpecAct);                *)
(*   - the token usage utilities: calculateCost on IEEE doubles            *)
(*     (SpecCost), parseSessionUsage (SpecParse), getAgentUsage            *)
(*     (SpecAgentUsage) and the time-series bucketizer (SpecSeries);       *)
(*   - the error responses under each NODE_ENV (SpecEnv), the task list    *)
(*     of the orchestration response (SpecTasks) and its activities from   *)
(*     the agent logs (SpecLogs);                                          *)
(*   - getProjectFromTaskId (SpecProject) and fetchAgentMetrics            *)
(*     (SpecMetrics);                                                      *)
(*   - the command palette of the dashboard (SpecPalette).                 *)
(*                                                                         *)
(* In the sparkline part JavaScript strings are sequences of one-character *)
(* strings, so that the template literal of getCacheKey is a real          *)
(* concatenation.  A handler runs to completion between two awaits, so     *)
(* each synchronous segment of a handler is one action.                    *)
(***************************************************************************)
EXTENDS Integers, Sequences, FiniteSets, TLC

VARIABLES
    now,        \* Date.now() of the server process, in ms
    cache,      \* the module-level Map: key -> [data, timestamp]
    pc,         \* per request: "new", "awaiting" (in getTokenTimeSeries), "done"
    params,     \* per request: the handler's range/agentName/sessionId/bucketSize
    cacheKey,   \* per request: the handler's cacheKey
    startTime,  \* per request: the handler's startTime
    resp,       \* per request: the response, [status, body]
    arrivedAt,  \* history: the clock when the request was taken up
    delSince,   \* history: a DELETE was handled after the request was taken up
    sawExpired, \* history: the request's lookup found the key's entry expired
    lastWriter, \* history: per key in the cache, the request whose setCache wrote it
    storedKeys, \* history: the keys setCache has stored since the last DELETE
    delResp,    \* the response of the last DELETE
    agents,       \* what getAgents returns: the registered agents
    reservations, \* what getReservations returns: file reservation rows
    tasks,        \* what getTasks returns: the task list
    orchResp,     \* the response of GET /api/orchestration to these lists
    postPc,       \* per POST: "new", "running" (in execAsync), "done"
    postBody,     \* per POST: what request.json() resolved to
    postResp,     \* per POST: the response, [status, body]
    bdRuns,       \* the bd commands handed to execAsync, in order
    bdOut,        \* what `bd list --json --assignee` does when it is run
    actResult,    \* the call of getAgentActivitiesFromBeads and its outcome
    costCall,     \* the call of calculateCost: its usage and the cost returned
    usageCall,    \* the call of parseSessionUsage: its log file and its result
    sessionFiles, \* the agent-<session>.txt files with their session logs
    agentCall,    \* the call of getAgentUsage: its arguments and its result
    usageRecords, \* the usage records the session logs hold, oldest first
    seriesCall,   \* the call of getTokenTimeSeries: its options and its result
    nodeEnv,      \* process.env.NODE_ENV of the server process
    projectCall,  \* the call of getProjectFromTaskId: its argument and result
    claudeDir,    \* the .claude directory of the working directory
    logsCall,     \* what getAgentActivities resolved to in the last GET
    amAgents,     \* the array `am-agents --json` prints
    metricsCall,  \* the call of fetchAgentMetrics and its outcome
    palette,      \* the $state fields of the command palette
    searchDebounceTimer, \* the pending timer of searchTasks, with its query
    fetches       \* the queries of the task searches in flight, oldest first

sparkVars == <<now, cache, pc, params, cacheKey, startTime, resp,
               arrivedAt, delSince, sawExpired, lastWriter, storedKeys, delResp>>

orchVars == <<agents, reservations, tasks, orchResp>>

postVars == <<postPc, postBody, postResp, bdRuns>>

actVars == <<bdOut, actResult>>

seriesVars == <<usageRecords, seriesCall>>

usageVars == <<costCall, usageCall, sessionFiles, agentCall, seriesVars>>

\* the usage variables outside each call
notCostVars == <<usageCall, sessionFiles, agentCall, seriesVars>>
notParseVars == <<costCall, sessionFiles, agentCall, seriesVars>>
notAgentVars == <<costCall, usageCall, seriesVars>>
notSeriesVars == <<costCall, usageCall, sessionFiles, agentCall>>

metricsVars == <<amAgents, metricsCall>>

logVars == <<claudeDir, logsCall>>

paletteVars == <<palette, searchDebounceTimer, fetches>>

\* the variables of the parts after the usage utilities
laterVars == <<nodeEnv, logVars, metricsVars, projectCall, paletteVars>>

\* the variables outside each part of the model
notSparkVars == <<orchVars, postVars, actVars, usageVars, laterVars>>
notOrchVars == <<sparkVars, postVars, actVars, usageVars, laterVars>>
notPostVars == <<sparkVars, orchVars, actVars, usageVars, laterVars>>
notActVars == <<sparkVars, orchVars, postVars, usageVars, laterVars>>
notUsageVars == <<sparkVars, orchVars, postVars, actVars, laterVars>>
notMetricsVars ==
    <<sparkVars, orchVars, postVars, actVars, usageVars, nodeEnv, logVars, projectCall,
      paletteVars>>
notLogVars ==
    <<sparkVars, postVars, actVars, usageVars, nodeEnv, metricsVars, projectCall,
      paletteVars>>
notProjectVars ==
    <<sparkVars, orchVars, postVars, actVars, usageVars, nodeEnv, logVars, metricsVars,
      paletteVars>>
notPaletteVars ==
    <<sparkVars, orchVars, postVars, actVars, usageVars, nodeEnv, logVars, metricsVars,
      projectCall>>

-----------------------------------------------------------------------------
(* Bounds of the model *)

MaxReqs == 2
MaxTicks == 2
MaxRows == 2
MaxPosts == 2
MaxBdTasks == 11
MaxPlain == 1
MaxLines == 3
MaxSessions == 2
MaxRecords == 2
MaxAgents == 2
MaxLogLines == 11
MaxLogFiles == 2
MaxTasks == 102
MaxIdLen == 4
MaxFetches == 2

Reqs == 1..MaxReqs

-----------------------------------------------------------------------------
(* Strings *)

Str24h == <<"2", "4", "h">>
Str7d == <<"7", "d">>
StrAll == <<"a", "l", "l">>
Str30min == <<"3", "0", "m", "i", "n">>
StrHour == <<"h", "o", "u", "r">>
StrSession == <<"s", "e", "s", "s", "i", "o", "n">>
Dash == <<"-">>

\* url.searchParams.get(name) of a parameter that is not in the URL
Absent == <<"<null>">>
\* the JavaScript value undefined
Undefined == <<"<undefined>">>

\* a || b for a string-or-null a
OrElse(a, b) == IF a = Absent \/ a = <<>> THEN b ELSE a

\* a destructuring default: { x = d } = obj
Default(a, d) == IF a = Undefined THEN d ELSE a

\* { ...a, ...b }
Spread(a, b) ==
    [f \in (DOMAIN a) \cup (DOMAIN b) |-> IF f \in DOMAIN b THEN b[f] ELSE a[f]]

-----------------------------------------------------------------------------
(* The sparkline cache *)

CACHE_TTL_MS == 30 * 1000

EmptyCache == [k \in {} |-> 0]

IsExpiredInSeconds(age) == age > CACHE_TTL_MS * 1000

\* "Check if expired"
IsExpired(age) == age > CACHE_TTL_MS

NoHit == [hit |-> FALSE]

getCachedWholeEntry(c, key, t) ==
    IF key \notin DOMAIN c THEN NoHit
    ELSE LET entry == c[key]
             age == t - entry.timestamp
         IN  IF IsExpired(age) THEN NoHit
             ELSE [hit |-> TRUE, data |-> entry, age |-> age]

\* getCached's return value at clock t
getCached(c, key, t) ==
    IF key \notin DOMAIN c THEN NoHit
    ELSE LET entry == c[key]
             age == t - entry.timestamp
         IN  IF IsExpired(age) THEN NoHit
             ELSE [hit |-> TRUE, data |-> entry.data, age |-> age]

EvictAllExpired(c, key, t) ==
    [k \in {x \in DOMAIN c : ~IsExpired(t - c[x].timestamp)} |-> c[k]]

\* getCached's effect on the Map at clock t
CacheAfterLookup(c, key, t) ==
    IF key \in DOMAIN c /\ IsExpired(t - c[key].timestamp)
    THEN [k \in (DOMAIN c) \ {key} |-> c[k]]
    ELSE c

\* a store that leaves the entry of a key that has one
setCacheIfAbsent(c, key, data, t) ==
    [k \in (DOMAIN c) \cup {key} |->
        IF k = key /\ k \notin DOMAIN c THEN [data |-> data, timestamp |-> t] ELSE c[k]]

\* setCache at clock t
setCache(c, key, data, t) ==
    [k \in (DOMAIN c) \cup {key} |->
        IF k = key THEN [data |-> data, timestamp |-> t] ELSE c[k]]

getCacheKey(p) ==
    Default(p.range, Str24h) \o Dash \o Default(p.agent, <<>>) \o Dash
        \o Default(p.session, <<>>) \o Dash \o Default(p.bucketSize, Str30min)


-----------------------------------------------------------------------------
(* GET /api/agents/sparkline *)

VALID_RANGES == {Str24h, Str7d, StrAll}
VALID_BUCKET_SIZES == {Str30min, StrHour, StrSession}

AnyRange(range) == TRUE

\* ['24h', '7d', 'all'].includes(range)
ValidRange(range) == range \in VALID_RANGES

\* ['30min', 'hour', 'session'].includes(bucketSize)
ValidBucketSize(bucketSize) == bucketSize \in VALID_BUCKET_SIZES

StrBogus == <<"b", "o", "g", "u", "s">>
StrDay == <<"d", "a", "y">>
StrA == <<"a">>
StrAX == <<"a", "-", "x">>
StrY == <<"y">>
StrXY == <<"x", "-", "y">>

\* url.searchParams of the requests a client sends: the test page's two
\* queries, agent and session names with a '-' in them, and bad enum values
Query(rq, ag, se, bs) == [range |-> rq, agent |-> ag, session |-> se, bucketSize |-> bs]
Queries ==
    { Query(Absent, Absent, Absent, Absent),
      Query(Str24h, Absent, Absent, Absent),
      Query(Str24h, StrA, StrXY, Absent),
      Query(Str24h, StrAX, StrY, Str30min),
      Query(StrBogus, Absent, Absent, Absent),
      Query(Absent, StrA, Absent, StrDay) }

\* the handler's reading of the query string
ReadParams(rq, ag, se, bs) ==
    [range      |-> OrElse(rq, Str24h),
     agent      |-> OrElse(ag, Undefined),
     session    |-> OrElse(se, Undefined),
     bucketSize |-> OrElse(bs, Str30min)]

NoParams == [range |-> Undefined, agent |-> Undefined,
             session |-> Undefined, bucketSize |-> Undefined]

\* what getTokenTimeSeries resolves to when it returns at clock t: the series
\* is a function of the query and of the logs as they are at that moment
TokenTimeSeries(p, t) ==
    [data       |-> <<p.range, p.agent, p.session, p.bucketSize, t>>,
     bucketSize |-> p.bucketSize,
     endTime    |-> t]

NoResp == [status |-> 0, body |-> [pending |-> TRUE]]

InvalidRangeResp ==
    [status |-> 400,
     body |-> [error |-> "Invalid range parameter",
               message |-> "Range must be: 24h, 7d, or all",
               validValues |-> <<Str24h, Str7d, StrAll>>]]

InvalidBucketResp ==
    [status |-> 400,
     body |-> [error |-> "Invalid bucketSize parameter",
               message |-> "Bucket size must be: 30min, hour, or session",
               validValues |-> <<Str30min, StrHour, StrSession>>]]

HitResp(cached) ==
    [status |-> 200,
     body |-> Spread(cached.data, [cached |-> TRUE, cacheAge |-> cached.age])]

MissResp(result, fetchDuration) ==
    [status |-> 200,
     body |-> Spread(result, [cached |-> FALSE, cacheAge |-> 0,
                              fetchDuration |-> fetchDuration])]

\* the catch block's response; json() leaves out a field that is undefined
ErrorResp(env) ==
    [status |-> 500,
     body |-> Spread([error |-> "Failed to fetch sparkline data",
                      message |-> "Unknown error"],
                     IF env = "development"
                     THEN [stack |-> <<"Error", "    at getTokenTimeSeries">>]
                     ELSE [f \in {} |-> <<>>])]

MarkInFlight(c, key, t) ==
    [k \in (DOMAIN c) \cup {key} |->
        IF k = key THEN [timestamp |-> t] ELSE c[k]]

\* the Map as the handler leaves it when a miss suspends in the await
CacheWhileAwaiting(c, key, t) == c

\* The handler up to its first await: parameters, validation, cache lookup.
GetHandle(r) ==
    /\ pc[r] = "new"
    /\ \A r0 \in Reqs : r0 < r => pc[r0] # "new"
    /\ \E q \in Queries :
         LET p == ReadParams(q.range, q.agent, q.session, q.bucketSize) IN
         /\ params' = [params EXCEPT ![r] = p]
         /\ arrivedAt' = [arrivedAt EXCEPT ![r] = now]
         /\ IF ~ValidRange(p.range)
            THEN /\ resp' = [resp EXCEPT ![r] = InvalidRangeResp]
                 /\ pc' = [pc EXCEPT ![r] = "done"]
                 /\ UNCHANGED <<cache, cacheKey, startTime, lastWriter, sawExpired>>
            ELSE IF ~ValidBucketSize(p.bucketSize)
            THEN /\ resp' = [resp EXCEPT ![r] = InvalidBucketResp]
                 /\ pc' = [pc EXCEPT ![r] = "done"]
                 /\ UNCHANGED <<cache, cacheKey, startTime, lastWriter, sawExpired>>
            ELSE LET key == getCacheKey(p)
                     cached == getCached(cache, key, now)
                     c1 == CacheAfterLookup(cache, key, now)
                 IN  /\ cacheKey' = [cacheKey EXCEPT ![r] = key]
                     /\ sawExpired' = [sawExpired EXCEPT ![r] =
                                          key \in DOMAIN cache /\ ~cached.hit]
                     /\ lastWriter' = [k \in DOMAIN c1 |-> lastWriter[k]]
                     /\ IF cached.hit
                        THEN /\ cache' = c1
                             /\ resp' = [resp EXCEPT ![r] = HitResp(cached)]
                             /\ pc' = [pc EXCEPT ![r] = "done"]
                             /\ UNCHANGED startTime
                        ELSE /\ cache' = CacheWhileAwaiting(c1, key, now)
                             /\ startTime' = [startTime EXCEPT ![r] = now]
                             /\ pc' = [pc EXCEPT ![r] = "awaiting"]
                             /\ UNCHANGED resp
    /\ UNCHANGED <<now, delSince, storedKeys, delResp>>
    /\ UNCHANGED notSparkVars

\* getTokenTimeSeries resolved: the handler stores the result and answers.
GetResume(r) ==
    /\ pc[r] = "awaiting"
    /\ LET result == TokenTimeSeries(params[r], now)
           fetchDuration == now - startTime[r]
       IN  /\ cache' = setCache(cache, cacheKey[r], result, now)
           /\ lastWriter' = [k \in (DOMAIN cache) \cup {cacheKey[r]} |->
                                IF k = cacheKey[r] THEN r ELSE lastWriter[k]]
           /\ resp' = [resp EXCEPT ![r] = MissResp(result, fetchDuration)]
    /\ storedKeys' = storedKeys \cup {cacheKey[r]}
    /\ pc' = [pc EXCEPT ![r] = "done"]
    /\ UNCHANGED <<now, params, cacheKey, startTime, arrivedAt, delSince,
                   sawExpired, delResp>>
    /\ UNCHANGED notSparkVars

\* the failure stored under the key
CacheWithError(c, key, t) ==
    [k \in (DOMAIN c) \cup {key} |->
        IF k = key THEN [data |-> [error |-> "Failed to fetch sparkline data"],
                         timestamp |-> t]
        ELSE c[k]]

\* the Map as the catch block leaves it
CacheAfterThrow(c, key, t) == c

\* getTokenTimeSeries rejected: the catch block answers.
GetThrow(r) ==
    /\ pc[r] = "awaiting"
    /\ cache' = CacheAfterThrow(cache, cacheKey[r], now)
    /\ resp' = [resp EXCEPT ![r] = ErrorResp(nodeEnv)]
    /\ pc' = [pc EXCEPT ![r] = "done"]
    /\ UNCHANGED <<now, params, cacheKey, startTime, arrivedAt,
                   delSince, sawExpired, lastWriter, storedKeys, delResp>>
    /\ UNCHANGED notSparkVars

-----------------------------------------------------------------------------
(* DELETE /api/agents/sparkline *)

SizeAfterClear(c) == 0

\* cache.size
CacheSize(c) == Cardinality(DOMAIN c)

\* cache.clear()
CacheCleared(c, t) == EmptyCache

Delete ==
    /\ LET cacheSize == CacheSize(cache)
       IN  delResp' = [success |-> TRUE, clearedEntries |-> cacheSize]
    /\ cache' = CacheCleared(cache, now)
    /\ lastWriter' = [k \in DOMAIN cache' |-> lastWriter[k]]
    /\ delSince' = [r \in Reqs |-> delSince[r] \/ pc[r] # "new"]
    /\ storedKeys' = {}
    /\ UNCHANGED <<now, pc, params, cacheKey, startTime, resp, arrivedAt,
                   sawExpired>>
    /\ UNCHANGED notSparkVars

-----------------------------------------------------------------------------
(* The clock *)

\* The clock advances in steps of one TTL, so that an entry is seen at ages
\* below CACHE_TTL_MS (0), at it and above it.
ClockStep == CACHE_TTL_MS

Tick ==
    /\ now < MaxTicks * ClockStep
    /\ now' = now + ClockStep
    /\ UNCHANGED <<cache, pc, params, cacheKey, startTime, resp, arrivedAt,
                   delSince, sawExpired, lastWriter, storedKeys, delResp>>
    /\ UNCHANGED notSparkVars

-----------------------------------------------------------------------------
(* GET /api/orchestration *)

\* the JavaScript value null where a string is expected
Null == "<null>"

\* a nullable timestamp or object: null is Nil, the value v is Some(v)
Nil == <<>>
Some(v) == <<v>>

\* !x for a string-or-null x
Falsy(x) == x = Null \/ x = ""

\* !x for a nullable timestamp x
FalsyTs(x) == x = Nil

AgentNames == {"A1", "A2"}

\* the rows of the registered agents
AgentRows == <<[id |-> 1, name |-> "A1"], [id |-> 2, name |-> "A2"]>>

\* the Task interface: status and priority of a task
Statuses == {"open", "in_progress", "blocked", "closed"}
Priorities == 0..4

\* the task rows that enter the list: any status, priority and assignee
TaskRows ==
    [status : Statuses, priority : Priorities, assignee : {Null} \cup AgentNames,
     depends_on : {<<>>}, blocked_by : {<<>>}]

\* the reservation rows that enter the list: of either agent; expired one
\* clock step ago, expiring at this instant or one clock step ahead; released
\* one clock step ago or not released
ReservationRows ==
    [agent_name : AgentNames,
     expires_ts : {now - ClockStep, now, now + ClockStep},
     released_ts : {Nil, Some(now - ClockStep)}]

\* what getAgentActivities resolves to: nothing logged, or one line of A1
ActivityMaps ==
    { [a \in {} |-> <<>>],
      [a \in {"A1"} |-> <<[agent |-> "A1", ts |-> now - ClockStep, type |-> "tool"]>>] }

NotExpired(r, t) == r.expires_ts > t

\* expiresAt > new Date() && !r.released_ts
IsActiveReservation(r, t) == r.expires_ts > t /\ FalsyTs(r.released_ts)

\* one element of agentStats
AgentStat(agent, rs, ts, activities, t) ==
    LET agentReservations == SelectSeq(rs, LAMBDA r : r.agent_name = agent.name)
        agentTasks == SelectSeq(ts, LAMBDA x : x.assignee = agent.name)
        openTasks == Len(SelectSeq(agentTasks, LAMBDA x : x.status = "open"))
        inProgressTasks == Len(SelectSeq(agentTasks, LAMBDA x : x.status = "in_progress"))
        hasActiveReservations ==
            \E i \in DOMAIN agentReservations :
                IsActiveReservation(agentReservations[i], t)
        agentActivities ==
            IF agent.name \in DOMAIN activities THEN activities[agent.name] ELSE <<>>
        currentActivity ==
            IF Len(agentActivities) > 0 THEN Some(agentActivities[1]) ELSE Nil
    IN  Spread(agent,
               [reservation_count |-> Len(agentReservations),
                task_count        |-> Len(agentTasks),
                open_tasks        |-> openTasks,
                in_progress_tasks |-> inProgressTasks,
                active            |-> hasActiveReservations \/ inProgressTasks > 0,
                activities        |-> agentActivities,
                current_activity  |-> currentActivity])

agentStats(as, rs, ts, activities, t) ==
    [i \in DOMAIN as |-> AgentStat(as[i], rs, ts, activities, t)]

reservationsByAgent(rs) ==
    [a \in {rs[i].agent_name : i \in DOMAIN rs} |->
        SelectSeq(rs, LAMBDA r : r.agent_name = a)]

CountStatusOrUnassigned(ts, s) ==
    Len(SelectSeq(ts, LAMBDA x : x.status = s \/ x.assignee = Null))

\* tasks.filter(t => t.status === s).length
CountStatus(ts, s) == Len(SelectSeq(ts, LAMBDA x : x.status = s))

\* tasks.filter(t => t.priority === p).length
CountPriority(ts, p) == Len(SelectSeq(ts, LAMBDA x : x.priority = p))

taskStats(ts) ==
    [total       |-> Len(ts),
     open        |-> CountStatus(ts, "open"),
     in_progress |-> CountStatus(ts, "in_progress"),
     blocked     |-> CountStatus(ts, "blocked"),
     closed      |-> CountStatus(ts, "closed"),
     by_priority |-> [p0 |-> CountPriority(ts, 0),
                      p1 |-> CountPriority(ts, 1),
                      p2 |-> CountPriority(ts, 2),
                      p3 |-> CountPriority(ts, 3),
                      p4 |-> CountPriority(ts, 4)]]

\* t.f && t.f.length > 0 for an optional array field f
NonEmptyField(x, f) == f \in DOMAIN x /\ Len(x[f]) > 0

tasksWithBothDeps(ts) ==
    SelectSeq(ts, LAMBDA x : NonEmptyField(x, "depends_on")
                               /\ NonEmptyField(x, "blocked_by"))

tasksWithDeps(ts) ==
    SelectSeq(ts, LAMBDA x : NonEmptyField(x, "depends_on")
                               \/ NonEmptyField(x, "blocked_by"))

UnassignedOfAnyStatus(ts) == SelectSeq(ts, LAMBDA x : Falsy(x.assignee))

unassignedTasks(ts) ==
    SelectSeq(ts, LAMBDA x : Falsy(x.assignee) /\ x.status = "open")

\* the whole array
Whole(arr, n) == arr

\* tasks.slice(0, 100)
TASKS_SLICE == 100
Slice(arr, n) == SubSeq(arr, 1, IF Len(arr) < n THEN Len(arr) ELSE n)

\* new Date().toISOString()
ToISOString(t) == <<"ISO", t>>

NoOrchResp == [status |-> 0, body |-> [pending |-> TRUE]]

OrchResp(as, rs, ts, activities, t) ==
    [status |-> 200,
     body |-> [agents                |-> agentStats(as, rs, ts, activities, t),
               reservations          |-> rs,
               reservations_by_agent |-> reservationsByAgent(rs),
               tasks                 |-> Slice(ts, TASKS_SLICE),
               unassigned_tasks      |-> unassignedTasks(ts),
               task_stats            |-> taskStats(ts),
               tasks_with_deps_count |-> Len(tasksWithDeps(ts)),
               tasks_with_deps       |-> tasksWithDeps(ts),
               timestamp             |-> ToISOString(t),
               meta |-> [poll_interval_ms |-> 3000,
                         data_sources     |-> <<"agent-mail", "beads">>,
                         cache_ttl_ms     |-> 2000]]]

OrchErrorResp(message, t) ==
    [status |-> 500,
     body |-> [error                 |-> "Failed to fetch orchestration data",
               message               |-> message,
               stack                 |-> <<"Error: ", message, "    at GET">>,
               agents                |-> <<>>,
               reservations          |-> <<>>,
               reservations_by_agent |-> [a \in {} |-> <<>>],
               tasks                 |-> <<>>,
               unassigned_tasks      |-> <<>>,
               task_stats |-> [total |-> 0, open |-> 0, in_progress |-> 0,
                               blocked |-> 0, closed |-> 0,
                               by_priority |-> [p0 |-> 0, p1 |-> 0, p2 |-> 0,
                                                p3 |-> 0, p4 |-> 0]],
               tasks_with_deps_count |-> 0,
               tasks_with_deps       |-> <<>>,
               timestamp             |-> ToISOString(t)]]

\* The readers return, getAgentActivities resolves, the handler answers.
OrchGet ==
    /\ orchResp = NoOrchResp
    /\ \E activities \in ActivityMaps :
          orchResp' = OrchResp(agents, reservations, tasks, activities, now)
    /\ UNCHANGED <<agents, reservations, tasks>>
    /\ UNCHANGED notOrchVars

\* the readers whose throw rejects the Promise.all (getAgentActivities
\* catches its own errors)
Readers == {"getAgents", "getReservations", "getTasks"}

\* error.message of what a reader throws: it names the reader
ErrorMessage(reader) == reader

\* One of the readers throws: the catch block answers.
OrchThrow ==
    /\ orchResp = NoOrchResp
    /\ \E reader \in Readers :
          orchResp' = OrchErrorResp(ErrorMessage(reader), now)
    /\ UNCHANGED <<agents, reservations, tasks>>
    /\ UNCHANGED notOrchVars

\* A task enters the list getTasks returns.
CreateTask ==
    /\ orchResp = NoOrchResp
    /\ Len(tasks) + Len(reservations) < MaxRows
    /\ \E row \in TaskRows : tasks' = Append(tasks, row)
    /\ UNCHANGED <<agents, reservations, orchResp>>
    /\ UNCHANGED notOrchVars

\* A reservation enters the list getReservations returns.
ReserveFiles ==
    /\ orchResp = NoOrchResp
    /\ Len(tasks) + Len(reservations) < MaxRows
    /\ \E row \in ReservationRows : reservations' = Append(reservations, row)
    /\ UNCHANGED <<agents, tasks, orchResp>>
    /\ UNCHANGED notOrchVars

\* the arrays a task can carry in depends_on or blocked_by
DepLists == {<<>>, <<[id |-> "jat-1", title |-> "Dep", status |-> "closed"]>>}

\* the optional fields depends_on and blocked_by of a task: each one absent,
\* empty or with one element
DepFields ==
    {[f \in {} |-> <<>>]} \cup [depends_on : DepLists] \cup [blocked_by : DepLists]
        \cup [depends_on : DepLists, blocked_by : DepLists]

\* open, unassigned tasks with those fields
DepTaskRows ==
    {Spread([status |-> "open", priority |-> 2, assignee |-> Null], d) :
        d \in DepFields}

\* A task with or without dependencies enters the list getTasks returns.
CreateTaskWithDeps ==
    /\ orchResp = NoOrchResp
    /\ Len(tasks) + Len(reservations) < MaxRows
    /\ \E row \in DepTaskRows : tasks' = Append(tasks, row)
    /\ UNCHANGED <<agents, reservations, orchResp>>
    /\ UNCHANGED notOrchVars

\* The k-th task of a tracker with many tasks: status, priority, assignee
\* and dependencies go round with k, from the offset on.
TrackedTask(k, offset) ==
    [id         |-> <<"jat-", k>>,
     status     |-> <<"open", "in_progress", "blocked", "closed">>[((k + offset) % 4) + 1],
     priority   |-> (k + offset) % 5,
     assignee   |-> <<Null, "A1", "A2">>[((k + offset) % 3) + 1],
     depends_on |-> IF k % 2 = 1 THEN <<[id |-> <<"jat-", k - 1>>]>> ELSE <<>>,
     blocked_by |-> <<>>]

\* The trackers hold n tasks, which getTasks returns in their order.
TrackTasks ==
    /\ orchResp = NoOrchResp
    /\ tasks = <<>>
    /\ \E n \in 1..MaxTasks, offset \in 0..11 :
          tasks' = [k \in 1..n |-> TrackedTask(k, offset)]
    /\ UNCHANGED <<agents, reservations, orchResp>>
    /\ UNCHANGED notOrchVars

-----------------------------------------------------------------------------
(* POST /api/orchestration *)

Posts == 1..MaxPosts

\* a field the JSON body does not have
Missing == "<undefined>"

\* !x for a string-or-undefined x
FalsyField(x) == x = Missing \/ x = ""

\* what request.json() resolves to; Malformed is a body it rejects
PostBodies ==
    [taskId : {Missing, "", "jat-1", "jat-2"}, agentName : {Missing, "", "A1"}]
Malformed == [malformed |-> TRUE]

NoPostResp == [status |-> 0, body |-> [pending |-> TRUE]]

\* `bd update ${taskId} --assignee "${agentName}"`
BdCommand(taskId, agentName) == <<"bd update ", taskId, " --assignee ", agentName>>

InvalidRequestResp ==
    [status |-> 400,
     body |-> [error |-> "Invalid request",
               message |-> "Unexpected token in JSON"]]

MissingFieldsResp ==
    [status |-> 400,
     body |-> [error |-> "Missing required fields",
               message |-> "taskId and agentName are required"]]

AssignedResp(taskId, agentName, stdout, t) ==
    [status |-> 200,
     body |-> [success   |-> TRUE,
               taskId    |-> taskId,
               agentName |-> agentName,
               message   |-> <<"Task ", taskId, " assigned to ", agentName>>,
               output    |-> stdout,
               timestamp |-> ToISOString(t)]]

BdFailedResp(taskId, agentName, message) ==
    [status |-> 500,
     body |-> [error     |-> "Failed to assign task via bd CLI",
               message   |-> message,
               taskId    |-> taskId,
               agentName |-> agentName]]

\* what bd prints on success, and execError.message when it fails
BdStdouts == {"", "Updated"}
ExecErrorMessage(command) == <<"Command failed: ", command>>

RequiresTaskIdOnly(body) == ~FalsyField(body.taskId)

\* !taskId || !agentName is false
HasRequiredFields(body) == ~(FalsyField(body.taskId) \/ FalsyField(body.agentName))

\* the log of bd runs with the outcome of the run of POST p added
Exited(runs, p, outcome) ==
    [i \in DOMAIN runs |->
        IF runs[i].post = p THEN Spread(runs[i], outcome) ELSE runs[i]]

\* The handler from request.json() to the call of execAsync.
PostHandle(p) ==
    /\ postPc[p] = "new"
    /\ \E body \in PostBodies \cup {Malformed} :
         /\ postBody' = [postBody EXCEPT ![p] = body]
         /\ IF body = Malformed
            THEN /\ postResp' = [postResp EXCEPT ![p] = InvalidRequestResp]
                 /\ postPc' = [postPc EXCEPT ![p] = "done"]
                 /\ UNCHANGED bdRuns
            ELSE IF ~HasRequiredFields(body)
            THEN /\ postResp' = [postResp EXCEPT ![p] = MissingFieldsResp]
                 /\ postPc' = [postPc EXCEPT ![p] = "done"]
                 /\ UNCHANGED bdRuns
            ELSE /\ bdRuns' = Append(bdRuns, [post |-> p,
                                 command |-> BdCommand(body.taskId, body.agentName)])
                 /\ postPc' = [postPc EXCEPT ![p] = "running"]
                 /\ UNCHANGED postResp
    /\ UNCHANGED notPostVars

\* execAsync resolved: bd exited with 0.
PostBdDone(p) ==
    /\ postPc[p] = "running"
    /\ \E stdout \in BdStdouts :
         /\ postResp' = [postResp EXCEPT ![p] =
               AssignedResp(postBody[p].taskId, postBody[p].agentName, stdout, now)]
         /\ bdRuns' = Exited(bdRuns, p, [stdout |-> stdout])
    /\ postPc' = [postPc EXCEPT ![p] = "done"]
    /\ UNCHANGED postBody
    /\ UNCHANGED notPostVars

\* execAsync rejected: bd could not be run or exited with an error.
PostBdFail(p) ==
    /\ postPc[p] = "running"
    /\ LET message == ExecErrorMessage(BdCommand(postBody[p].taskId,
                                                  postBody[p].agentName))
       IN  /\ postResp' = [postResp EXCEPT ![p] =
                 BdFailedResp(postBody[p].taskId, postBody[p].agentName, message)]
           /\ bdRuns' = Exited(bdRuns, p, [error |-> message])
    /\ postPc' = [postPc EXCEPT ![p] = "done"]
    /\ UNCHANGED postBody
    /\ UNCHANGED notPostVars

InitPost ==
    /\ postPc = [p \in Posts |-> "new"]
    /\ postBody = [p \in Posts |-> Malformed]
    /\ postResp = [p \in Posts |-> NoPostResp]
    /\ bdRuns = <<>>

-----------------------------------------------------------------------------

(* getAgentActivitiesFromBeads (beads activity utilities) *)

\* activities.slice(0, 10)
ACTIVITY_LIMIT == 10

\* new Date(ts) as a number, for the timestamps bd prints: days since 1970
DateValue(ts) ==
    CASE ts = "2025-11-20" -> 20412
      [] ts = "2025-11-21" -> 20413
      [] ts = "2025-11-22" -> 20414

\* x.f of a parsed JSON object
Field(x, f) == IF f \in DOMAIN x THEN x[f] ELSE Missing

\* a || b
Or(a, b) == IF FalsyField(a) THEN b ELSE a

\* The n-th task bd lists for the agent.  bd omits closed_at for a task that
\* is not closed; a plain row is one that has no updated_at either.
BdPlainRow(n) ==
    [id |-> <<"jat-", n>>, title |-> "Task", created_at |-> "2025-11-21"]
BdOpenRow(n) ==
    [id |-> <<"jat-", n>>, title |-> "Task", created_at |-> "2025-11-20",
     updated_at |-> "2025-11-22"]
BdClosedRow(n) ==
    [id |-> <<"jat-", n>>, title |-> "Task", description |-> "Details",
     created_at |-> "2025-11-20", updated_at |-> "2025-11-22",
     closed_at |-> "2025-11-20"]

IsPlain(row) == "updated_at" \notin DOMAIN row

\* What the bd process does: it fails to run or exits non-zero ("rejects"),
\* or prints stdout that is empty, blank, not JSON, a JSON object, or the
\* JSON array of the rows.
BdKinds == {"rejects", "empty", "blank", "text", "object"}
BdArray(rows) == [kind |-> "array", rows |-> rows]
BdStderrs == {"", "warning"}

NoActResult == [kind |-> "none", agentName |-> Missing, value |-> <<>>]
Threw(agentName) == [kind |-> "threw", agentName |-> agentName, value |-> <<>>]
Returned(agentName, value) ==
    [kind |-> "returned", agentName |-> agentName, value |-> value]

\* tasks.map(task => ({ ts, preview, content, type, taskId }))
ActivityOf(task) ==
    [ts |-> Or(Or(Field(task, "closed_at"), Field(task, "updated_at")),
               Field(task, "created_at")),
     preview |-> <<"[", task.id, "] ", task.title>>,
     content |-> Or(Field(task, "description"), task.title),
     type |-> "task",
     taskId |-> task.id]

\* (a, b) => new Date(a.ts) - new Date(b.ts)
CompareOldestFirst(a, b) == DateValue(a.ts) - DateValue(b.ts)

\* (a, b) => new Date(b.ts) - new Date(a.ts)
Compare(a, b) == DateValue(b.ts) - DateValue(a.ts)

\* Array.prototype.sort with Compare: stable, so x goes behind every element
\* that Compare does not put behind it
RECURSIVE Insert(_, _)
Insert(sorted, x) ==
    IF sorted = <<>> THEN <<x>>
    ELSE LET last == sorted[Len(sorted)]
             front == SubSeq(sorted, 1, Len(sorted) - 1)
         IN  IF Compare(last, x) <= 0 THEN Append(sorted, x)
             ELSE Append(Insert(front, x), last)

RECURSIVE Sort(_)
Sort(arr) ==
    IF arr = <<>> THEN <<>>
    ELSE Insert(Sort(SubSeq(arr, 1, Len(arr) - 1)), arr[Len(arr)])

\* the body of the try block once execAsync has resolved
ActivitiesFrom(stdout, stderr) ==
    IF stderr # "" /\ stdout.kind = "empty" THEN <<>>
    ELSE IF stdout.kind \in {"empty", "blank"} THEN <<>>
    ELSE IF stdout.kind = "text" THEN <<>>
    ELSE IF stdout.kind # "array" THEN <<>>
    ELSE Slice(Sort([i \in DOMAIN stdout.rows |-> ActivityOf(stdout.rows[i])]),
               ACTIVITY_LIMIT)

\* bd has one more task of the agent to list
BdListsTask ==
    /\ actResult = NoActResult
    /\ bdOut.kind = "array"
    /\ Len(bdOut.rows) < MaxBdTasks
    /\ LET n == Len(bdOut.rows) + 1
           plain == Len(SelectSeq(bdOut.rows, IsPlain))
       IN  \E row \in {BdOpenRow(n), BdClosedRow(n)}
                      \cup (IF plain < MaxPlain THEN {BdPlainRow(n)} ELSE {}) :
               bdOut' = BdArray(Append(bdOut.rows, row))
    /\ UNCHANGED actResult
    /\ UNCHANGED notActVars

\* bd does not print a task list at all
BdMisbehaves ==
    /\ actResult = NoActResult
    /\ bdOut = BdArray(<<>>)
    /\ \E kind \in BdKinds : bdOut' = [kind |-> kind, rows |-> <<>>]
    /\ UNCHANGED actResult
    /\ UNCHANGED notActVars

\* One call of getAgentActivitiesFromBeads(agentName), from the check of the
\* name to the return or the throw.
GetActivities ==
    /\ actResult = NoActResult
    /\ \E agentName \in {Missing, "", "A1"}, stderr \in BdStderrs :
         actResult' =
            IF FalsyField(agentName) THEN Threw(agentName)
            ELSE IF bdOut.kind = "rejects" THEN Returned(agentName, <<>>)
            ELSE Returned(agentName, ActivitiesFrom(bdOut, stderr))
    /\ UNCHANGED bdOut
    /\ UNCHANGED notActVars

InitAct ==
    /\ bdOut = BdArray(<<>>)
    /\ actResult = NoActResult

-----------------------------------------------------------------------------

(* Token usage and cost (tokenUsage utilities, as the usage metrics guide   *)
(* and the unit tests give them)                                           *)

\* JavaScript numbers are IEEE 754 doubles.  A natural number of any size is
\* the sequence of its bits, lowest first, without leading zeros; a double
\* that is not negative is [m, e] for the value m * 2^e with m odd (53 bits
\* at most), and zero is [<<>>, 0].
RECURSIVE Bits(_)
Bits(n) == IF n = 0 THEN <<>> ELSE <<n % 2>> \o Bits(n \div 2)

\* Sums, products and quotients are taken ten bits at a time: a limb is a
\* number below 1024, and the limbs of a number are its digits in base 1024,
\* lowest first.
Pow2(k) == <<1, 2, 4, 8, 16, 32, 64, 128, 256, 512, 1024>>[k + 1]

\* the i-th digit of a, 0 above the highest
Digit(a, i) == IF i <= Len(a) THEN a[i] ELSE 0

Limbs(a) ==
    [j \in 1..((Len(a) + 9) \div 10) |->
        LET i == 10 * (j - 1)
        IN  Digit(a, i + 1) + 2 * Digit(a, i + 2) + 4 * Digit(a, i + 3)
            + 8 * Digit(a, i + 4) + 16 * Digit(a, i + 5) + 32 * Digit(a, i + 6)
            + 64 * Digit(a, i + 7) + 128 * Digit(a, i + 8) + 256 * Digit(a, i + 9)
            + 512 * Digit(a, i + 10)]

\* the bits of the number with limbs x, leading zeros dropped
BitsOf(x) ==
    LET all == [i \in 1..(10 * Len(x)) |->
                   (x[(i - 1) \div 10 + 1] \div Pow2((i - 1) % 10)) % 2]
        set == {i \in DOMAIN all : all[i] = 1}
    IN  IF set = {} THEN <<>>
        ELSE SubSeq(all, 1, CHOOSE i \in set : \A j \in set : j <= i)

\* x + y from limb Len(acc) + 1 on; acc holds the limbs of the sum below it
RECURSIVE AddCarry(_, _, _, _)
AddCarry(x, y, carry, acc) ==
    LET j == Len(acc) + 1
    IN  IF j > Len(x) /\ j > Len(y) THEN Append(acc, carry)
        ELSE LET sum == Digit(x, j) + Digit(y, j) + carry
             IN  AddCarry(x, y, sum \div 1024, Append(acc, sum % 1024))

\* x * c for a limb c
RECURSIVE MulCarry(_, _, _, _)
MulCarry(x, c, carry, acc) ==
    LET j == Len(acc) + 1
    IN  IF j > Len(x) THEN Append(acc, carry)
        ELSE LET prod == x[j] * c + carry
             IN  MulCarry(x, c, prod \div 1024, Append(acc, prod % 1024))

\* x times the limbs of y from limb j on
RECURSIVE MulFrom(_, _, _)
MulFrom(x, y, j) ==
    IF j > Len(y) THEN <<>>
    ELSE AddCarry(MulCarry(x, y[j], 0, <<>>), <<0>> \o MulFrom(x, y, j + 1), 0, <<>>)

\* x divided by d < 2^20, from the highest limb down: the limbs of the
\* quotient and the remainder
RECURSIVE DivFrom(_, _, _, _)
DivFrom(x, d, rem, acc) ==
    LET j == Len(x) - Len(acc)
    IN  IF j = 0 THEN [quot |-> acc, rem |-> rem]
        ELSE LET r == 1024 * rem + x[j]
             IN  DivFrom(x, d, r % d, <<r \div d>> \o acc)

BitsAdd(a, b) == BitsOf(AddCarry(Limbs(a), Limbs(b), 0, <<>>))

BitsMul(a, b) == BitsOf(MulFrom(Limbs(a), Limbs(b), 1))

\* a * 2^k
ShiftLeft(a, k) ==
    IF a = <<>> THEN <<>>
    ELSE [i \in 1..(Len(a) + k) |-> IF i <= k THEN 0 ELSE a[i - k]]

Zero == [m |-> <<>>, e |-> 0]

\* m * 2^e with the low zero bits of m moved into e
Normal(m, e) ==
    LET low == CHOOSE i \in DOMAIN m :
                  m[i] = 1 /\ \A j \in 1..(i - 1) : m[j] = 0
    IN  [m |-> SubSeq(m, low, Len(m)), e |-> e + low - 1]

\* n * 2^e rounded to 53 significant bits, ties to even; n's highest bit is
\* set
RoundToDouble(n, e) ==
    IF Len(n) <= 53 THEN Normal(n, e)
    ELSE LET s == Len(n) - 53
             q == SubSeq(n, s + 1, Len(n))
             sticky == \E i \in 1..(s - 1) : n[i] = 1
             up == n[s] = 1 /\ (sticky \/ q[1] = 1)
         IN  Normal(IF up THEN BitsAdd(q, <<1>>) ELSE q, e + s)

\* the double nearest to n / d for natural numbers n < 2^30 and d < 2^20: the
\* value of a decimal literal and of the division of two such integers.
\* The quotient of n * 2^80 by d keeps at least 60 bits; one more bit below
\* them says whether the division left a remainder.
DoubleOfRatio(n, d) ==
    IF n = 0 THEN Zero
    ELSE LET dv == DivFrom(Limbs(ShiftLeft(Bits(n), 80)), d, 0, <<>>)
         IN  RoundToDouble(<<IF dv.rem = 0 THEN 0 ELSE 1>> \o BitsOf(dv.quot),
                           0 - 81)

\* a * b
DMul(a, b) ==
    IF a = Zero \/ b = Zero THEN Zero
    ELSE RoundToDouble(BitsMul(a.m, b.m), a.e + b.e)

\* a + b
DAdd(a, b) ==
    IF a = Zero THEN b
    ELSE IF b = Zero THEN a
    ELSE LET e == IF a.e < b.e THEN a.e ELSE b.e
         IN  RoundToDouble(BitsAdd(ShiftLeft(a.m, a.e - e), ShiftLeft(b.m, b.e - e)), e)

\* the token counts of a usage object
TokenCounts == {0, 100, 200, 1000000}
TokenUsages ==
    [input_tokens : TokenCounts, cache_creation_input_tokens : TokenCounts,
     cache_read_input_tokens : TokenCounts, output_tokens : TokenCounts]

\* every class charged at the input rate
CostAtInputRate(usage) ==
    DMul(DoubleOfRatio(usage.input_tokens + usage.output_tokens
                         + usage.cache_creation_input_tokens
                         + usage.cache_read_input_tokens, 1000000),
         DoubleOfRatio(300, 100))

calculateCost(usage) ==
    LET inputCost ==
            DMul(DoubleOfRatio(usage.input_tokens, 1000000), DoubleOfRatio(300, 100))
        outputCost ==
            DMul(DoubleOfRatio(usage.output_tokens, 1000000), DoubleOfRatio(1500, 100))
        cacheWriteCost ==
            DMul(DoubleOfRatio(usage.cache_creation_input_tokens, 1000000),
                 DoubleOfRatio(375, 100))
        cacheReadCost ==
            DMul(DoubleOfRatio(usage.cache_read_input_tokens, 1000000),
                 DoubleOfRatio(30, 100))
    IN  DAdd(DAdd(DAdd(inputCost, outputCost), cacheWriteCost), cacheReadCost)

NoCostCall == [done |-> FALSE]

\* one call of calculateCost
CalculateCost ==
    /\ costCall = NoCostCall
    /\ \E usage \in TokenUsages :
         costCall' = [done |-> TRUE, usage |-> usage, cost |-> calculateCost(usage)]
    /\ UNCHANGED notCostVars
    /\ UNCHANGED notUsageVars

\* A line of a session log (JSONL): text that JSON.parse rejects, or an
\* entry.  The entries are those of the fixtures MOCK_JSONL_VALID,
\* MOCK_JSONL_MALFORMED and MOCK_JSONL_MISSING_USAGE.
BadLine == [json |-> FALSE]
Entry(e) == [json |-> TRUE, entry |-> e]
UsageEntry(type, usage) ==
    Entry([type |-> type, message |-> [usage |-> usage]])
FullUsage(input, creation, read, output) ==
    [input_tokens |-> input, cache_creation_input_tokens |-> creation,
     cache_read_input_tokens |-> read, output_tokens |-> output]

MOCK_JSONL_VALID ==
    << UsageEntry("request", FullUsage(100, 50, 25, 200)),
       UsageEntry("response", FullUsage(150, 0, 75, 250)),
       UsageEntry("request", FullUsage(200, 100, 50, 300)) >>
MOCK_JSONL_MALFORMED ==
    << UsageEntry("request", [input_tokens |-> 100]),
       BadLine,
       UsageEntry("response", [input_tokens |-> 200]) >>
MOCK_JSONL_MISSING_USAGE ==
    << Entry([type |-> "request", message |-> <<>>]),
       Entry([type |-> "response"]) >>

Range(seq) == {seq[i] : i \in DOMAIN seq}

LogLines ==
    Range(MOCK_JSONL_VALID) \cup Range(MOCK_JSONL_MALFORMED)
        \cup Range(MOCK_JSONL_MISSING_USAGE)

\* what readFile gives for the session's log: Nil when it rejects
SessionLogs ==
    {Nil} \cup {Some(lines) : lines \in UNION {[1..n -> LogLines] : n \in 0..MaxLines}}

\* entry.message?.usage of a parsed line, {} when there is none
UsageOf(line) ==
    IF "message" \in DOMAIN line.entry /\ "usage" \in DOMAIN line.entry.message
    THEN line.entry.message.usage
    ELSE <<>>

\* usage.f || 0
Tokens(usage, f) == IF f \in DOMAIN usage THEN usage[f] ELSE 0

ZeroTokens ==
    [input |-> 0, cache_creation |-> 0, cache_read |-> 0, output |-> 0, total |-> 0]

\* one turn of the loop over the lines: a line that does not parse is caught
\* and skipped
AddLine(tokens, line) ==
    IF ~line.json THEN tokens
    ELSE LET u == UsageOf(line)
             input == Tokens(u, "input_tokens")
             creation == Tokens(u, "cache_creation_input_tokens")
             read == Tokens(u, "cache_read_input_tokens")
             output == Tokens(u, "output_tokens")
         IN  [input |-> tokens.input + input,
              cache_creation |-> tokens.cache_creation + creation,
              cache_read |-> tokens.cache_read + read,
              output |-> tokens.output + output,
              total |-> tokens.total + input + creation + read + output]

\* the loop given up at the first line that does not parse
RECURSIVE ParseUntilBadLine(_, _)
ParseUntilBadLine(lines, tokens) ==
    IF lines = <<>> \/ ~Head(lines).json THEN tokens
    ELSE ParseUntilBadLine(Tail(lines), AddLine(tokens, Head(lines)))

\* the loop over the lines, first to last
RECURSIVE ParseLines(_, _)
ParseLines(lines, tokens) ==
    IF lines = <<>> THEN tokens
    ELSE ParseLines(Tail(lines), AddLine(tokens, Head(lines)))

\* the usage object calculateCost is given for token totals
UsageOfTokens(tokens) ==
    FullUsage(tokens.input, tokens.cache_creation, tokens.cache_read, tokens.output)

SessionUsage(sessionId, lines) ==
    LET tokens == ParseLines(lines, ZeroTokens)
    IN  [sessionId |-> sessionId, tokens |-> tokens,
         cost |-> calculateCost(UsageOfTokens(tokens))]

NoUsageCall == [pc |-> "new", log |-> Nil, result |-> Nil]

\* parseSessionUsage(sessionId, projectPath) up to its await of readFile
ParseStart ==
    /\ usageCall = NoUsageCall
    /\ \E log \in SessionLogs :
         usageCall' = [pc |-> "reading", log |-> log, result |-> Nil]
    /\ UNCHANGED notParseVars
    /\ UNCHANGED notUsageVars

\* readFile resolves: the lines are summed and the result returned
ParseRead ==
    /\ usageCall.pc = "reading"
    /\ usageCall.log # Nil
    /\ usageCall' = [usageCall EXCEPT !.pc = "done",
                        !.result = Some(SessionUsage("test-session", usageCall.log[1]))]
    /\ UNCHANGED notParseVars
    /\ UNCHANGED notUsageVars

\* readFile rejects: null is returned
ParseUnreadable ==
    /\ usageCall.pc = "reading"
    /\ usageCall.log = Nil
    /\ usageCall' = [usageCall EXCEPT !.pc = "done", !.result = Nil]
    /\ UNCHANGED notParseVars
    /\ UNCHANGED notUsageVars

\* An agent-<session>.txt file names the agent of the session; the session's
\* log is unreadable (Nil) or holds entries stamped today or yesterday.
SessionFiles ==
    [agent : AgentNames, day : {"today", "yesterday"},
     log : {Nil, Some(MOCK_JSONL_VALID), Some(MOCK_JSONL_MALFORMED)}]

TimeRanges == {"today", "all"}

InRange(range, day) == range = "all" \/ day = range

\* a session counted whether or not its log could be parsed
IsAgentSessionInRange(file, agentName, range) ==
    file.agent = agentName /\ InRange(range, file.day)

\* the sessions getAgentUsage adds up: the agent's, parsed, in the range
IsCounted(file, agentName, range) ==
    /\ file.agent = agentName
    /\ file.log # Nil
    /\ InRange(range, file.day)

ZeroUsage ==
    [sessionCount |-> 0, total_tokens |-> 0, input_tokens |-> 0,
     cache_creation_tokens |-> 0, cache_read_tokens |-> 0, output_tokens |-> 0]

\* one turn of the loop over the session files
AddSession(usage, file, agentName, range) ==
    IF ~IsCounted(file, agentName, range) THEN usage
    ELSE LET tokens == IF file.log = Nil THEN ZeroTokens
                       ELSE SessionUsage("session", file.log[1]).tokens
         IN  [sessionCount |-> usage.sessionCount + 1,
              total_tokens |-> usage.total_tokens + tokens.total,
              input_tokens |-> usage.input_tokens + tokens.input,
              cache_creation_tokens |->
                  usage.cache_creation_tokens + tokens.cache_creation,
              cache_read_tokens |-> usage.cache_read_tokens + tokens.cache_read,
              output_tokens |-> usage.output_tokens + tokens.output]

RECURSIVE AddSessions(_, _, _, _)
AddSessions(files, usage, agentName, range) ==
    IF files = <<>> THEN usage
    ELSE AddSessions(Tail(files), AddSession(usage, Head(files), agentName, range),
                     agentName, range)

AgentUsage(files, agentName, range) ==
    LET usage == AddSessions(files, ZeroUsage, agentName, range)
    IN  Spread(usage,
               [cost |-> calculateCost(FullUsage(usage.input_tokens,
                             usage.cache_creation_tokens, usage.cache_read_tokens,
                             usage.output_tokens))])

NoAgentCall == [done |-> FALSE]

\* a session is recorded under .claude
WriteSession ==
    /\ agentCall = NoAgentCall
    /\ Len(sessionFiles) < MaxSessions
    /\ \E file \in SessionFiles : sessionFiles' = Append(sessionFiles, file)
    /\ UNCHANGED agentCall
    /\ UNCHANGED notAgentVars
    /\ UNCHANGED notUsageVars

\* One call of getAgentUsage(agentName, range, projectPath); readdir either
\* lists the session files or rejects, which is taken as no session.
GetAgentUsage ==
    /\ agentCall = NoAgentCall
    /\ \E agentName \in AgentNames \cup {"NoSessions"}, range \in TimeRanges,
          listed \in BOOLEAN :
         agentCall' =
            [done |-> TRUE, agentName |-> agentName, range |-> range,
             listed |-> listed, threw |-> FALSE,
             usage |-> AgentUsage(IF listed THEN sessionFiles ELSE <<>>,
                                  agentName, range)]
    /\ UNCHANGED sessionFiles
    /\ UNCHANGED notAgentVars
    /\ UNCHANGED notUsageVars

(* The time-series bucketizer (getTokenTimeSeries).  Time is counted in     *)
(* half hours, the narrowest bucket.                                       *)

\* the moment of the call
SeriesNow == 401

\* every bucket taken as half an hour wide
HalfHourWidth(bucketSize) == 1

\* the width of a bucket of size "30min" or "hour"
BucketWidth(bucketSize) == IF bucketSize = "30min" THEN 1 ELSE 2

\* the length of the range "24h" or "7d"
RangeLength(range) == IF range = "24h" THEN 48 ELSE 336

SessionIds == <<"s1", "s2">>

\* A usage record: one line of a session log with its session, its token
\* counts and its timestamp, Nil when the timestamp does not parse.  The
\* timestamps lie before, at and after the start of each range and at now.
UsageRecords ==
    [timestamp : {Nil, Some(0), Some(64), Some(65), Some(352), Some(353),
                  Some(SeriesNow)},
     sessionId : Range(SessionIds),
     usage : {FullUsage(100, 50, 25, 200)}]
        \cup
    [timestamp : {Some(353)}, sessionId : {"s1"}, usage : {FullUsage(150, 0, 75, 250)}]

RecordTokens(record) ==
    record.usage.input_tokens + record.usage.cache_creation_input_tokens
        + record.usage.cache_read_input_tokens + record.usage.output_tokens

\* every record with a timestamp that parses taken as in the range
HasTimestamp(range, timestamp) == timestamp # Nil

\* the timestamp parses and lies in the requested range
SeriesInRange(range, timestamp) ==
    /\ timestamp # Nil
    /\ timestamp[1] <= SeriesNow
    /\ range # "all" => timestamp[1] >= SeriesNow - RangeLength(range)

\* the tokens of the records at the positions in set
RECURSIVE SumTokens(_, _)
SumTokens(records, set) ==
    IF set = {} THEN 0
    ELSE LET i == CHOOSE i \in set : TRUE
         IN  RecordTokens(records[i]) + SumTokens(records, set \ {i})

\* the positions of the records the series counts
Kept(records, range) ==
    {i \in DOMAIN records : SeriesInRange(range, records[i].timestamp)}

\* the buckets of width w from the one that holds the start of the range to
\* the one that holds now, a record in the bucket floor(timestamp / w);
\* range "all" starts at the earliest record; no records, no buckets
TimeBuckets(records, range, w) ==
    LET kept == Kept(records, range)
        start == IF range # "all" THEN SeriesNow - RangeLength(range)
                 ELSE LET i == CHOOSE i \in kept : \A j \in kept :
                                  records[i].timestamp[1] <= records[j].timestamp[1]
                      IN  records[i].timestamp[1]
        first == start \div w
        last == SeriesNow \div w
    IN  IF records = <<>> \/ (range = "all" /\ kept = {}) THEN <<>>
        ELSE [k \in 1..(last - first + 1) |->
                [timestamp |-> (first + k - 1) * w,
                 tokens |-> SumTokens(records,
                               {i \in kept :
                                  records[i].timestamp[1] \div w = first + k - 1})]]

\* one bucket for each session with a record the series counts
SessionBuckets(records, range) ==
    LET kept == Kept(records, range)
        of(s) == {i \in kept : records[i].sessionId = s}
        sessions == SelectSeq(SessionIds, LAMBDA s : of(s) # {})
    IN  [k \in DOMAIN sessions |->
            [sessionId |-> sessions[k],
             timestamp |-> records[CHOOSE i \in of(sessions[k]) :
                                     \A j \in of(sessions[k]) : i <= j].timestamp[1],
             tokens |-> SumTokens(records, of(sessions[k]))]]

TokenSeries(records, range, bucketSize) ==
    LET data == IF bucketSize = "session" THEN SessionBuckets(records, range)
                ELSE TimeBuckets(records, range, BucketWidth(bucketSize))
    IN  [data |-> data,
         totalTokens |-> SumTokens(records, Kept(records, range)),
         bucketCount |-> Len(data),
         bucketSize |-> bucketSize]

NoSeriesCall == [done |-> FALSE]

\* a session log gets one more line with usage
LogUsage ==
    /\ seriesCall = NoSeriesCall
    /\ Len(usageRecords) < MaxRecords
    /\ \E record \in UsageRecords : usageRecords' = Append(usageRecords, record)
    /\ UNCHANGED seriesCall
    /\ UNCHANGED notSeriesVars
    /\ UNCHANGED notUsageVars

\* one call of getTokenTimeSeries({ range, bucketSize })
GetSeries ==
    /\ seriesCall = NoSeriesCall
    /\ \E range \in {"24h", "7d", "all"}, bucketSize \in {"30min", "hour", "session"} :
         seriesCall' = [done |-> TRUE, range |-> range, bucketSize |-> bucketSize,
                        result |-> TokenSeries(usageRecords, range, bucketSize)]
    /\ UNCHANGED usageRecords
    /\ UNCHANGED notSeriesVars
    /\ UNCHANGED notUsageVars

InitUsage ==
    /\ costCall = NoCostCall
    /\ usageCall = NoUsageCall
    /\ sessionFiles = <<>>
    /\ agentCall = NoAgentCall
    /\ usageRecords = <<>>
    /\ seriesCall = NoSeriesCall

-----------------------------------------------------------------------------
(* getAgentActivities: the activity logs .claude/agent-*-activity.jsonl *)

\* a line that parses to null
NullLine == [json |-> TRUE]

\* a line that parses to an activity of the agent
ActivityLine(agent, ts, preview) ==
    Entry([agent |-> agent, ts |-> ts, type |-> "tool", preview |-> preview])

\* the k-th line of a log that one agent writes: the clocks of its tools are
\* not in step, so the dates are out of order and repeat
LogDate(k) == <<"2025-11-21", "2025-11-22", "2025-11-20">>[(k % 3) + 1]
LongLog(n) == [k \in 1..n |-> ActivityLine("A1", LogDate(k), <<"Edit", k>>)]

\* logs with lines to skip among the activities of two agents
MixedLogs ==
    { << BadLine,
         ActivityLine("A1", "2025-11-22", <<"edit", 0>>),
         Entry([ts |-> "2025-11-22", type |-> "tool"]),
         NullLine,
         ActivityLine("A2", "2025-11-20", <<"read", 0>>),
         ActivityLine("", "2025-11-22", <<"bash", 0>>),
         ActivityLine("A1", "2025-11-20", <<"test", 0>>) >>,
      << ActivityLine("A2", "2025-11-21", <<"grep", 0>>), BadLine >> }

\* the names of the files in .claude, in two parts
ActivityFileName == <<"agent-1", "-activity.jsonl">>
OtherFileName == <<"settings", ".json">>

\* the files .claude can hold: an activity log that cannot be read, one of
\* one agent, a mixed one, and a file that is no activity log
LogFiles ==
    {[name |-> ActivityFileName, content |-> Nil]}
        \cup {[name |-> ActivityFileName, content |-> Some(LongLog(n))] :
                 n \in 0..MaxLogLines}
        \cup {[name |-> ActivityFileName, content |-> Some(log)] : log \in MixedLogs}
        \cup {[name |-> OtherFileName, content |-> Some(LongLog(1))]}

\* every file of .claude taken as an activity log
AnyFile(file) == TRUE

\* f.includes('-activity.jsonl')
IsActivityFile(file) == \E i \in DOMAIN file.name : file.name[i] = "-activity.jsonl"

\* the body of the loop over the lines: JSON.parse throws for text that is
\* not JSON and activity.agent throws for null, both into the catch of the
\* line; pushed holds the activities pushed so far, in the order of the push
PushLine(pushed, line) ==
    IF ~line.json THEN pushed
    ELSE IF "entry" \notin DOMAIN line THEN pushed
    ELSE IF FalsyField(Field(line.entry, "agent")) THEN pushed
    ELSE Append(pushed, line.entry)

RECURSIVE PushLines(_, _, _)
PushLines(pushed, lines, i) ==
    IF i > Len(lines) THEN pushed
    ELSE PushLines(PushLine(pushed, lines[i]), lines, i + 1)

\* the body of the loop over the files: readFile throws into the catch of
\* the file
RECURSIVE PushFiles(_, _, _)
PushFiles(pushed, files, i) ==
    IF i > Len(files) THEN pushed
    ELSE IF files[i].content = Nil THEN PushFiles(pushed, files, i + 1)
    ELSE PushFiles(PushLines(pushed, files[i].content[1], 1), files, i + 1)

\* what getAgentActivities(limit) resolves to
getAgentActivities(dir, limit) ==
    IF dir.kind = "missing" THEN [a \in {} |-> <<>>]
    ELSE IF dir.kind = "unlistable" THEN [a \in {} |-> <<>>]
    ELSE LET activityFiles == SelectSeq(dir.files, IsActivityFile)
             pushed == PushFiles(<<>>, activityFiles, 1)
         IN  [a \in {pushed[i].agent : i \in DOMAIN pushed} |->
                 Slice(Sort(SelectSeq(pushed, LAMBDA x : x.agent = a)), limit)]

NoDir == [kind |-> "missing", files |-> <<>>]
NoLogsCall == [done |-> FALSE]

\* the working directory gets its .claude directory, or something that
\* readdir cannot list
MakeClaudeDir ==
    /\ orchResp = NoOrchResp
    /\ claudeDir = NoDir
    /\ \E kind \in {"dir", "unlistable"} : claudeDir' = [kind |-> kind, files |-> <<>>]
    /\ UNCHANGED <<logsCall, orchVars>>
    /\ UNCHANGED notLogVars

\* a file appears in .claude
WriteLogFile ==
    /\ orchResp = NoOrchResp
    /\ claudeDir.kind = "dir"
    /\ Len(claudeDir.files) < MaxLogFiles
    /\ \E file \in LogFiles :
         claudeDir' = [claudeDir EXCEPT !.files = Append(@, file)]
    /\ UNCHANGED <<logsCall, orchVars>>
    /\ UNCHANGED notLogVars

\* GET /api/orchestration with the activity logs as they are: the readers
\* return, getAgentActivities(10) resolves, the handler answers.
OrchGetWithLogs ==
    /\ orchResp = NoOrchResp
    /\ LET activities == getAgentActivities(claudeDir, ACTIVITY_LIMIT)
       IN  /\ logsCall' = [done |-> TRUE, activities |-> activities]
           /\ orchResp' = OrchResp(agents, reservations, tasks, activities, now)
    /\ UNCHANGED <<claudeDir, agents, reservations, tasks>>
    /\ UNCHANGED notLogVars

InitLogs ==
    /\ claudeDir = NoDir
    /\ logsCall = NoLogsCall

-----------------------------------------------------------------------------
(* getProjectFromTaskId (project utilities).  A string is the sequence of    *)
(* its characters.                                                           *)

\* the characters of the model: lower case, upper case, digits
LowerCase == {"a", "b", "c", "j", "m", "o", "p", "r", "t", "x", "y", "z"}
UpperCase == {"A", "J", "T"}
Digits == {"1", "2", "3"}

\* [a-zA-Z0-9]
IsAlnum(c) == c \in LowerCase \cup UpperCase \cup Digits

\* [a-zA-Z0-9_-]
IsPrefixChar(c) == IsAlnum(c) \/ c = "_" \/ c = "-"

\* the task IDs of the documentation, and every string of up to MaxIdLen
\* characters out of a letter of either case, a digit, the hyphen, the
\* underscore and the dot
TaskIds ==
    { <<"j", "a", "t", "-", "a", "b", "c">>,
      <<"m", "y", "-", "a", "p", "p", "-", "x", "y", "z">>,
      <<"J", "A", "T", "-", "1", "2", "3">>,
      <<"m", "y", "_", "p", "r", "o", "j", "-", "a", "b", "c">>,
      <<"-", "a", "b", "c">>,
      <<"a", "b", "c", "-">> }
        \cup UNION {[1..n -> {"a", "J", "1", "-", "_", "."}] : n \in 0..MaxIdLen}

\* taskId.match(/^([a-zA-Z0-9_-]+?)-([a-zA-Z0-9]+)$/): the positions of the
\* hyphen of a match.  The lazy group takes the first of them.
Matches(taskId) ==
    {i \in DOMAIN taskId :
        /\ taskId[i] = "-"
        /\ i > 1 /\ i < Len(taskId)
        /\ \A j \in 1..(i - 1) : IsPrefixChar(taskId[j])
        /\ \A j \in (i + 1)..Len(taskId) : IsAlnum(taskId[j])}

\* /^-+$/.test(projectPrefix)
OnlyHyphens(prefix) == prefix # <<>> /\ \A j \in DOMAIN prefix : prefix[j] = "-"

\* the return value: Nil for null
getProjectFromTaskId(taskId) ==
    IF taskId = <<>> \/ taskId = Undefined THEN Nil
    ELSE LET match == Matches(taskId)
         IN  IF match = {} THEN Nil
             ELSE LET i == CHOOSE i \in match : \A j \in match : i <= j
                      projectPrefix == SubSeq(taskId, 1, i - 1)
                  IN  IF projectPrefix = <<>> \/ OnlyHyphens(projectPrefix)
                      THEN Nil
                      ELSE Some(projectPrefix)

NoProjectCall == [done |-> FALSE]

\* one call of getProjectFromTaskId
GetProject ==
    /\ projectCall = NoProjectCall
    /\ \E taskId \in TaskIds \cup {Undefined} :
         projectCall' = [done |-> TRUE, taskId |-> taskId,
                         project |-> getProjectFromTaskId(taskId)]
    /\ UNCHANGED notProjectVars

-----------------------------------------------------------------------------
(* The command palette (CommandPalette.svelte).  The component's $state      *)
(* fields are the fields of `palette`; strings are sequences of              *)
(* one-character strings, so that fuzzyMatch is a real substring search.     *)
(* A handler and the effects it triggers run to completion before the next   *)
(* event, so each event is one action.                                       *)

UpperLetters ==
    <<"A", "B", "C", "D", "E", "F", "G", "H", "I", "J", "K", "L", "M",
      "N", "O", "P", "Q", "R", "S", "T", "U", "V", "W", "X", "Y", "Z">>

LowerLetters ==
    <<"a", "b", "c", "d", "e", "f", "g", "h", "i", "j", "k", "l", "m",
      "n", "o", "p", "q", "r", "s", "t", "u", "v", "w", "x", "y", "z">>

\* String.prototype.toLowerCase
toLowerCase(text) ==
    [i \in DOMAIN text |->
        IF \E k \in DOMAIN UpperLetters : UpperLetters[k] = text[i]
        THEN LowerLetters[CHOOSE k \in DOMAIN UpperLetters : UpperLetters[k] = text[i]]
        ELSE text[i]]

\* String.prototype.includes
Includes(text, part) ==
    \E i \in 0..(Len(text) - Len(part)) : SubSeq(text, i + 1, i + Len(part)) = part

\* !query.trim(): nothing but white space
TrimIsEmpty(query) == \A i \in DOMAIN query : query[i] = " "

\* the action registry: the id, label, description and keywords of each action
actions ==
    << [id |-> "nav-home",
        label |-> <<"G", "o", " ", "t", "o", " ", "H", "o", "m", "e">>,
        description |->
          <<"V", "i", "e", "w", " ", "a", "l", "l", " ", "t", "a", "s", "k",
            "s", " ", "i", "n", " ", "l", "i", "s", "t", " ", "o", "r", " ",
            "g", "r", "a", "p", "h", " ", "m", "o", "d", "e">>,
        keywords |->
          <<<<"h", "o", "m", "e">>,
            <<"d", "a", "s", "h", "b", "o", "a", "r", "d">>,
            <<"t", "a", "s", "k", "s">>,
            <<"l", "i", "s", "t">>>>],
       [id |-> "nav-agents",
        label |-> <<"G", "o", " ", "t", "o", " ", "A", "g", "e", "n", "t", "s">>,
        description |->
          <<"V", "i", "e", "w", " ", "a", "g", "e", "n", "t", " ", "c", "o",
            "o", "r", "d", "i", "n", "a", "t", "i", "o", "n", " ", "a", "n",
            "d", " ", "t", "a", "s", "k", " ", "a", "s", "s", "i", "g", "n",
            "m", "e", "n", "t">>,
        keywords |->
          <<<<"a", "g", "e", "n", "t", "s">>,
            <<"t", "e", "a", "m">>,
            <<"c", "o", "o", "r", "d", "i", "n", "a", "t", "i", "o", "n">>,
            <<"a", "s", "s", "i", "g", "n">>>>],
       [id |-> "nav-api-demo",
        label |-> <<"G", "o", " ", "t", "o", " ", "A", "P", "I", " ", "D", "e", "m",
                   "o">>,
        description |->
          <<"I", "n", "t", "e", "r", "a", "c", "t", "i", "v", "e", " ", "A",
            "P", "I", " ", "t", "e", "s", "t", "i", "n", "g", " ", "a", "n",
            "d", " ", "e", "x", "p", "l", "o", "r", "a", "t", "i", "o", "n">>,
        keywords |->
          <<<<"a", "p", "i">>,
            <<"d", "e", "m", "o">>,
            <<"t", "e", "s", "t">>,
            <<"e", "n", "d", "p", "o", "i", "n", "t", "s">>>>],
       [id |-> "create-task",
        label |-> <<"C", "r", "e", "a", "t", "e", " ", "T", "a", "s", "k">>,
        description |->
          <<"O", "p", "e", "n", " ", "t", "a", "s", "k", " ", "c", "r", "e",
            "a", "t", "i", "o", "n", " ", "d", "r", "a", "w", "e", "r">>,
        keywords |->
          <<<<"c", "r", "e", "a", "t", "e">>,
            <<"n", "e", "w">>,
            <<"t", "a", "s", "k">>,
            <<"a", "d", "d">>>>],
       [id |-> "search-tasks",
        label |-> <<"S", "e", "a", "r", "c", "h", " ", "T", "a", "s", "k", "s">>,
        description |->
          <<"S", "e", "a", "r", "c", "h", " ", "a", "l", "l", " ", "t", "a",
            "s", "k", "s", " ", "a", "c", "r", "o", "s", "s", " ", "p", "r",
            "o", "j", "e", "c", "t", "s">>,
        keywords |->
          <<<<"s", "e", "a", "r", "c", "h">>,
            <<"f", "i", "n", "d">>,
            <<"f", "i", "l", "t", "e", "r">>,
            <<"q", "u", "e", "r", "y">>>>],
       [id |-> "toggle-theme",
        label |-> <<"C", "h", "a", "n", "g", "e", " ", "T", "h", "e", "m", "e">>,
        description |->
          <<"S", "w", "i", "t", "c", "h", " ", "b", "e", "t", "w", "e", "e",
            "n", " ", "l", "i", "g", "h", "t", " ", "a", "n", "d", " ", "d",
            "a", "r", "k", " ", "t", "h", "e", "m", "e", "s">>,
        keywords |->
          <<<<"t", "h", "e", "m", "e">>,
            <<"d", "a", "r", "k">>,
            <<"l", "i", "g", "h", "t">>,
            <<"a", "p", "p", "e", "a", "r", "a", "n", "c", "e">>,
            <<"s", "t", "y", "l", "e">>>>],
       [id |-> "refresh-data",
        label |-> <<"R", "e", "f", "r", "e", "s", "h", " ", "D", "a", "t", "a">>,
        description |->
          <<"R", "e", "l", "o", "a", "d", " ", "c", "u", "r", "r", "e", "n",
            "t", " ", "p", "a", "g", "e", " ", "d", "a", "t", "a">>,
        keywords |->
          <<<<"r", "e", "f", "r", "e", "s", "h">>,
            <<"r", "e", "l", "o", "a", "d">>,
            <<"u", "p", "d", "a", "t", "e">>,
            <<"s", "y", "n", "c">>>>] >>

fuzzyMatch(query, text) == Includes(toLowerCase(text), toLowerCase(query))

\* searchActions: the actions whose label, description or a keyword matches
searchActions(query) ==
    IF TrimIsEmpty(query) THEN actions
    ELSE SelectSeq(actions,
            LAMBDA action :
              \/ fuzzyMatch(query, action.label)
              \/ fuzzyMatch(query, action.description)
              \/ \E k \in DOMAIN action.keywords : fuzzyMatch(query, action.keywords[k]))

\* const filteredActions = $derived(searchActions(searchQuery))
filteredActions == searchActions(palette.searchQuery)

\* what the user can have in the input
SearchQueries ==
    { <<>>, <<" ">>, <<"S", "e", "a">>, <<"t", "a", "s", "k">>, <<"z", "z">> }

\* what /api/tasks?search=query finds: the tasks whose text holds the query
TasksFor(query) ==
    IF query = <<"z", "z">> THEN <<>>
    ELSE <<[id |-> <<"j", "a", "t", "-", "1">>, title |-> query]>>

\* the body of a response to the search: a task list, or an error object
TaskResponses(query) == { [tasks |-> TasksFor(query)], [error |-> TRUE] }

\* the component after construction
NewPalette ==
    [isOpen |-> FALSE, searchQuery |-> <<>>, selectedIndex |-> 0,
     isDrawerOpen |-> FALSE, searchMode |-> "actions", tasks |-> <<>>,
     isLoadingTasks |-> FALSE]

\* the component with its pending debounce timer and its fetches in flight
Component == [p |-> palette, timer |-> searchDebounceTimer, fetches |-> fetches]

\* searchTasks up to setTimeout: the timer holds the query of its callback
searchTasks(query, c) ==
    IF TrimIsEmpty(query)
    THEN [c EXCEPT !.timer = Nil, !.p.tasks = <<>>, !.p.isLoadingTasks = FALSE]
    ELSE [c EXCEPT !.timer = Some(query), !.p.isLoadingTasks = TRUE]

\* the two $effect blocks, run after a handler that left the component as c
\* when it was `before`: an effect runs again when a $state field it read
\* has changed
RunEffects(before, c) ==
    LET query == c.p.searchQuery
        queryChanged == query # before.searchQuery
        modeChanged == c.p.searchMode # before.searchMode
        searched ==
            IF (queryChanged \/ modeChanged)
               /\ c.p.searchMode = "tasks" /\ query # <<>>
            THEN searchTasks(query, c)
            ELSE c
    IN  IF queryChanged /\ query # <<>>
        THEN [searched EXCEPT !.p.selectedIndex = 0]
        ELSE searched

open(c) ==
    [c EXCEPT !.p.isOpen = TRUE, !.p.searchQuery = <<>>, !.p.selectedIndex = 0,
              !.p.searchMode = "actions", !.p.tasks = <<>>,
              !.p.isLoadingTasks = FALSE]

close(c) ==
    [c EXCEPT !.p.isOpen = FALSE, !.p.searchQuery = <<>>, !.p.selectedIndex = 0,
              !.p.searchMode = "actions", !.p.tasks = <<>>,
              !.p.isLoadingTasks = FALSE, !.timer = Nil]

\* action.execute(); window.location.reload() builds the page anew and drops
\* the timers and fetches of the old one
execute(id, c) ==
    CASE id \in {"nav-home", "nav-agents", "nav-api-demo", "toggle-theme"} -> close(c)
      [] id = "create-task" -> [close(c) EXCEPT !.p.isDrawerOpen = TRUE]
      [] id = "search-tasks" ->
            [c EXCEPT !.p.searchMode = "tasks", !.p.searchQuery = <<>>,
                      !.p.selectedIndex = 0, !.p.tasks = <<>>]
      [] id = "refresh-data" -> [p |-> NewPalette, timer |-> Nil, fetches |-> <<>>]

MathMin(a, b) == IF a < b THEN a ELSE b
MathMax(a, b) == IF a > b THEN a ELSE b

PaletteKeys == {"ArrowDown", "ArrowUp", "Enter", "Escape"}

handleKeyDown(key, c) ==
    IF ~c.p.isOpen THEN c
    ELSE CASE key = "ArrowDown" ->
                [c EXCEPT !.p.selectedIndex =
                    MathMin(c.p.selectedIndex + 1, Len(filteredActions) - 1)]
           [] key = "ArrowUp" ->
                [c EXCEPT !.p.selectedIndex = MathMax(c.p.selectedIndex - 1, 0)]
           [] key = "Enter" ->
                IF c.p.selectedIndex + 1 \in DOMAIN filteredActions
                THEN execute(filteredActions[c.p.selectedIndex + 1].id, c)
                ELSE c
           [] key = "Escape" -> close(c)

\* the component after a handler and the effects it triggered
Becomes(c) ==
    LET after == RunEffects(palette, c)
    IN  /\ palette' = after.p
        /\ searchDebounceTimer' = after.timer
        /\ fetches' = after.fetches
        /\ UNCHANGED notPaletteVars

\* Cmd+K or Ctrl+K anywhere in the window
GlobalKeyDown ==
    \/ palette.isOpen /\ Becomes(close(Component))
    \/ ~palette.isOpen /\ Becomes(open(Component))

\* a click on the backdrop of the open palette
BackdropClick ==
    /\ palette.isOpen
    /\ Becomes(close(Component))

\* the user changes the text of the input (bind:value={searchQuery})
TypeQuery ==
    /\ palette.isOpen
    /\ \E query \in SearchQueries \ {palette.searchQuery} :
         Becomes([Component EXCEPT !.p.searchQuery = query])

\* a key pressed in the input
KeyDown ==
    /\ palette.isOpen
    /\ \E key \in PaletteKeys : Becomes(handleKeyDown(key, Component))

\* the pointer enters the row of a listed action
MouseEnter ==
    /\ palette.isOpen
    /\ \E index \in 0..(Len(filteredActions) - 1) :
         Becomes([Component EXCEPT !.p.selectedIndex = index])

\* a click on the row of a listed action
ClickAction ==
    /\ palette.isOpen
    /\ \E index \in 0..(Len(filteredActions) - 1) :
         Becomes(execute(filteredActions[index + 1].id, Component))

\* the task creation drawer closes itself (bind:isOpen={isDrawerOpen})
DrawerCloses ==
    /\ palette.isDrawerOpen
    /\ Becomes([Component EXCEPT !.p.isDrawerOpen = FALSE])

\* 300 ms after searchTasks the timer's callback sends the search
TimerFires ==
    /\ searchDebounceTimer # Nil
    /\ Len(fetches) < MaxFetches
    /\ Becomes([Component EXCEPT !.timer = Nil,
                                 !.fetches = Append(fetches, searchDebounceTimer[1])])

\* the fetches in flight without the i-th
WithoutFetch(i) == SubSeq(fetches, 1, i - 1) \o SubSeq(fetches, i + 1, Len(fetches))

\* a search comes back and response.json() resolves: the rest of the callback
FetchResolves ==
    \E i \in DOMAIN fetches : \E data \in TaskResponses(fetches[i]) :
       Becomes([Component EXCEPT
                  !.p.tasks = IF "tasks" \in DOMAIN data THEN data.tasks ELSE <<>>,
                  !.p.isLoadingTasks = FALSE,
                  !.fetches = WithoutFetch(i)])

\* a search fails: the catch and finally blocks of the callback
FetchRejects ==
    \E i \in DOMAIN fetches :
       Becomes([Component EXCEPT !.p.tasks = <<>>, !.p.isLoadingTasks = FALSE,
                                 !.fetches = WithoutFetch(i)])

InitPalette ==
    /\ palette = NewPalette
    /\ searchDebounceTimer = Nil
    /\ fetches = <<>>

-----------------------------------------------------------------------------
(* fetchAgentMetrics (claudeUsageMetrics utilities, as the usage metrics     *)
(* guide gives it).  Time is in ms; the call is made two hours after the     *)
(* epoch of the model.                                                       *)

MetricsNow == 2 * 60 * 60000

\* what an agent row holds under last_activity_ts: no such field, null, text
\* that is no date, or a date 0 ms, 10 minutes or 60 minutes before the
\* call, or 1 ms less than these
Ages == {0, 10 * 60000 - 1, 10 * 60000, 60 * 60000 - 1, 60 * 60000}
ActivityStamps ==
    {[kind |-> "undefined"], [kind |-> "null"], [kind |-> "text"]}
        \cup {[kind |-> "date", ms |-> MetricsNow - age] : age \in Ages}

\* new Date(x).getTime(): Nil for NaN
GetTime(x) ==
    IF x.kind = "date" THEN Some(x.ms)
    ELSE IF x.kind = "null" THEN Some(0)
    ELSE Nil

\* minutesSinceActivity < minutes; a comparison with NaN is false
MinutesBelow(t, time, minutes) == time # Nil /\ t - time[1] < minutes * 60000

\* minutesSinceActivity >= minutes
MinutesAtLeast(t, time, minutes) == time # Nil /\ t - time[1] >= minutes * 60000

\* the value of a double below 1024 that is an integer
NatOf(m) == IF m = <<>> THEN 0 ELSE Limbs(m)[1]

\* Math.round of a double that is not negative: the integer part, and one
\* more when the bit of one half is set
MathRound(d) ==
    IF d.e >= 0 THEN NatOf(ShiftLeft(d.m, d.e))
    ELSE LET k == 0 - d.e
         IN  (IF k < Len(d.m) THEN NatOf(SubSeq(d.m, k + 1, Len(d.m))) ELSE 0)
             + Digit(d.m, k)

\* the Date.now() of every callback of the three filters, in the order of
\* the calls: the clock goes from MetricsNow to the next ms at one of them
\* or stays
ClockReadings(n) ==
    {[i \in 1..(3 * n) |-> IF i < k THEN MetricsNow ELSE MetricsNow + 1] :
        k \in 1..(3 * n + 1)}

\* what fetchAgentMetrics returns for the parsed stdout, reads[j] being the
\* clock at the j-th callback
fetchAgentMetrics(rows, reads) ==
    LET n == Len(rows)
        time(i) == GetTime(rows[i].last_activity_ts)
        working == Cardinality({i \in 1..n : MinutesBelow(reads[i], time(i), 10)})
        idle == Cardinality({i \in 1..n :
                    /\ MinutesAtLeast(reads[n + i], time(i), 10)
                    /\ MinutesBelow(reads[n + i], time(i), 60)})
        sleeping == Cardinality({i \in 1..n :
                        MinutesAtLeast(reads[2 * n + i], time(i), 60)})
    IN  [totalAgents    |-> n,
         workingAgents  |-> working,
         idleAgents     |-> idle,
         sleepingAgents |-> sleeping,
         loadPercentage |->
             IF n > 0
             THEN MathRound(DMul(DoubleOfRatio(working, n), DoubleOfRatio(100, 1)))
             ELSE 0]

NoMetricsCall == [done |-> FALSE]

\* an agent registers: am-agents lists one more row
RegisterAgent ==
    /\ metricsCall = NoMetricsCall
    /\ Len(amAgents) < MaxAgents
    /\ \E ts \in ActivityStamps :
         amAgents' = Append(amAgents, [name |-> "A", last_activity_ts |-> ts])
    /\ UNCHANGED metricsCall
    /\ UNCHANGED notMetricsVars

\* one call of fetchAgentMetrics: am-agents prints the array
FetchAgentMetrics ==
    /\ metricsCall = NoMetricsCall
    /\ \E reads \in ClockReadings(Len(amAgents)) :
         metricsCall' = [done |-> TRUE, threw |-> FALSE, reads |-> reads,
                         metrics |-> fetchAgentMetrics(amAgents, reads)]
    /\ UNCHANGED amAgents
    /\ UNCHANGED notMetricsVars

\* one call of fetchAgentMetrics: am-agents exits with an error, and the
\* promise of execAsync rejects
AmAgentsFails ==
    /\ metricsCall = NoMetricsCall
    /\ metricsCall' = [done |-> TRUE, threw |-> TRUE]
    /\ UNCHANGED amAgents
    /\ UNCHANGED notMetricsVars

InitMetrics ==
    /\ amAgents = <<>>
    /\ metricsCall = NoMetricsCall

-----------------------------------------------------------------------------

vars == <<sparkVars, orchVars, postVars, actVars, usageVars, laterVars>>

\* the values of NODE_ENV: a development server, a production build, not set
NodeEnvs == {"development", "production", "<undefined>"}

InitLater ==
    InitLogs /\ InitMetrics /\ InitPalette /\ projectCall = NoProjectCall

InitSpark ==
    /\ cache = EmptyCache
    /\ pc = [r \in Reqs |-> "new"]
    /\ params = [r \in Reqs |-> NoParams]
    /\ cacheKey = [r \in Reqs |-> Undefined]
    /\ startTime = [r \in Reqs |-> 0]
    /\ resp = [r \in Reqs |-> NoResp]
    /\ arrivedAt = [r \in Reqs |-> 0]
    /\ delSince = [r \in Reqs |-> FALSE]
    /\ sawExpired = [r \in Reqs |-> FALSE]
    /\ storedKeys = {}
    /\ lastWriter = EmptyCache
    /\ delResp = [success |-> FALSE, clearedEntries |-> 0]

InitOrchVars ==
    /\ agents = AgentRows
    /\ reservations = <<>>
    /\ tasks = <<>>
    /\ orchResp = NoOrchResp

Init ==
    /\ now = 0
    /\ nodeEnv = "production"
    /\ InitSpark /\ InitOrchVars /\ InitPost /\ InitAct /\ InitUsage /\ InitLater

\* the orchestration endpoint is polled after the server has run for one clock
\* step, so that a reservation can have expired
InitOrch ==
    /\ now = ClockStep
    /\ nodeEnv = "production"
    /\ InitSpark /\ InitOrchVars /\ InitPost /\ InitAct /\ InitUsage /\ InitLater

\* the server started in any environment
InitEnv ==
    /\ now = ClockStep
    /\ nodeEnv \in NodeEnvs
    /\ InitSpark /\ InitOrchVars /\ InitPost /\ InitAct /\ InitUsage /\ InitLater

Next ==
    \/ \E r \in Reqs : GetHandle(r)
    \/ \E r \in Reqs : GetResume(r)
    \/ \E r \in Reqs : GetThrow(r)
    \/ Delete
    \/ Tick

Spec == Init /\ [][Next]_vars

NextOrch ==
    \/ CreateTask
    \/ ReserveFiles
    \/ OrchGet
    \/ OrchThrow

SpecOrch == InitOrch /\ [][NextOrch]_vars

NextDeps ==
    \/ CreateTaskWithDeps
    \/ OrchGet
    \/ OrchThrow

SpecDeps == InitOrch /\ [][NextDeps]_vars

NextPost ==
    \/ \E p \in Posts : PostHandle(p)
    \/ \E p \in Posts : PostBdDone(p)
    \/ \E p \in Posts : PostBdFail(p)

SpecPost == InitOrch /\ [][NextPost]_vars

NextAct ==
    \/ BdListsTask
    \/ BdMisbehaves
    \/ GetActivities

SpecAct == InitOrch /\ [][NextAct]_vars

NextCost ==
    \/ CalculateCost

SpecCost == InitOrch /\ [][NextCost]_vars

NextParse ==
    \/ ParseStart
    \/ ParseRead
    \/ ParseUnreadable

SpecParse == InitOrch /\ [][NextParse]_vars

NextAgentUsage ==
    \/ WriteSession
    \/ GetAgentUsage

SpecAgentUsage == InitOrch /\ [][NextAgentUsage]_vars

NextSeries ==
    \/ LogUsage
    \/ GetSeries

SpecSeries == InitOrch /\ [][NextSeries]_vars

\* both GET handlers, in any environment
NextEnv ==
    \/ \E r \in Reqs : GetHandle(r)
    \/ \E r \in Reqs : GetResume(r)
    \/ \E r \in Reqs : GetThrow(r)
    \/ OrchGet
    \/ OrchThrow

SpecEnv == InitEnv /\ [][NextEnv]_vars

NextTasks ==
    \/ TrackTasks
    \/ OrchGet
    \/ OrchThrow

SpecTasks == InitOrch /\ [][NextTasks]_vars

NextLogs ==
    \/ MakeClaudeDir
    \/ WriteLogFile
    \/ OrchGetWithLogs
    \/ OrchThrow

SpecLogs == InitOrch /\ [][NextLogs]_vars

NextProject ==
    \/ GetProject

SpecProject == InitOrch /\ [][NextProject]_vars

NextMetrics ==
    \/ RegisterAgent
    \/ FetchAgentMetrics
    \/ AmAgentsFails

SpecMetrics == InitOrch /\ [][NextMetrics]_vars

NextPalette ==
    \/ GlobalKeyDown
    \/ BackdropClick
    \/ TypeQuery
    \/ KeyDown
    \/ MouseEnter
    \/ ClickAction
    \/ DrawerCloses
    \/ TimerFires
    \/ FetchResolves
    \/ FetchRejects

SpecPalette == InitOrch /\ [][NextPalette]_vars

-----------------------------------------------------------------------------
(* Properties of the sparkline cache *)

Handled(r) == pc[r] # "new"
Looked(r) == cacheKey[r] # Undefined
Answered(r) == pc[r] = "done"
IsHit(r) == Answered(r) /\ resp[r].status = 200 /\ resp[r].body.cached
IsMiss(r) == Answered(r) /\ resp[r].status = 200 /\ ~resp[r].body.cached

\* the step in which request r is taken up by the handler
HandleStep(r) == pc[r] = "new" /\ pc'[r] # "new"
\* the step in which request r comes back from its await
ReturnStep(r) == pc[r] = "awaiting" /\ pc'[r] = "done"

\* two JSON bodies agree in every field outside `except`
SameExcept(a, b, except) ==
    /\ (DOMAIN a) \ except = (DOMAIN b) \ except
    /\ \A f \in (DOMAIN a) \ except : a[f] = b[f]

\* C1: a cache hit is answered only while the entry's age is below the TTL;
\* at an age of exactly CACHE_TTL_MS or more the lookup is a miss.
C1_HitOnlyBelowTTL ==
    \A r \in Reqs : IsHit(r) => resp[r].body.cacheAge < CACHE_TTL_MS

\* C2: requests share a cache key exactly when their (range, agent, session,
\* bucketSize) tuples are equal.
C2_KeyInjective ==
    \A r1, r2 \in Reqs :
        (Looked(r1) /\ Looked(r2)) =>
            ((cacheKey[r1] = cacheKey[r2]) <=> (params[r1] = params[r2]))

\* C3, as claimed: of two answered requests with the same parameters, the
\* second taken up less than a TTL after the first with no DELETE since the
\* first, the second is a hit that equals the first response outside cached
\* and cacheAge.
C3_SecondIdentical ==
    \A r1, r2 \in Reqs :
        (/\ r1 < r2
         /\ Answered(r1) /\ resp[r1].status = 200
         /\ Answered(r2) /\ Looked(r2)
         /\ params[r1] = params[r2]
         /\ arrivedAt[r2] - arrivedAt[r1] < CACHE_TTL_MS
         /\ ~delSince[r1])
        => /\ IsHit(r2)
           /\ SameExcept(resp[r1].body, resp[r2].body, {"cached", "cacheAge"})

\* C3, amended: when the first request is a miss whose stored entry is still
\* the key's entry (no DELETE, no other store under the key) and is less than
\* a TTL old as the second request with the same parameters is taken up, the
\* second is answered at once as a hit that equals the first response outside
\* cached, cacheAge and fetchDuration.
C3_SecondIdenticalButDuration ==
    [][\A r1, r2 \in Reqs :
        (/\ HandleStep(r2)
         /\ IsMiss(r1)
         /\ params'[r2] = params[r1]
         /\ cacheKey[r1] \in DOMAIN cache
         /\ lastWriter[cacheKey[r1]] = r1
         /\ now - cache[cacheKey[r1]].timestamp < CACHE_TTL_MS)
        => /\ pc'[r2] = "done"
           /\ resp'[r2].status = 200
           /\ resp'[r2].body.cached
           /\ SameExcept(resp[r1].body, resp'[r2].body,
                         {"cached", "cacheAge", "fetchDuration"})
           /\ "fetchDuration" \notin DOMAIN resp'[r2].body]_vars

\* a second request was served from the entry the first one stored
C3_Witness ==
    \E r1, r2 \in Reqs :
        /\ r1 < r2 /\ IsMiss(r1) /\ IsHit(r2)
        /\ params[r1] = params[r2]
        /\ resp[r2].body.data = resp[r1].body.data
        /\ resp[r1].body.fetchDuration > 0

\* C4, as claimed: a request whose lookup found the key's entry older than
\* the TTL is answered with cached: false, and when it is answered the key's
\* entry is its fresh result with a fresh timestamp.
C4_ExpiredRecomputed ==
    [][\A r \in Reqs :
        /\ (HandleStep(r) /\ sawExpired'[r]) => pc'[r] = "awaiting"
        /\ (ReturnStep(r) /\ sawExpired[r]) =>
              /\ resp'[r].status = 200
              /\ ~resp'[r].body.cached
              /\ cacheKey[r] \in DOMAIN cache'
              /\ cache'[cacheKey[r]].timestamp = now]_vars

\* C4, amended: a request whose lookup found the key's entry older than the
\* TTL is never answered from the cache: it evicts the entry and awaits the
\* source read; when the read returns, the answer is cached: false with the
\* result of that read, and the key's entry becomes that result with the
\* current timestamp; when the read throws, the answer is a 500 and the key
\* is left without the evicted entry.
C4_ExpiredRecomputedUnlessThrow ==
    [][\A r \in Reqs :
        /\ (HandleStep(r) /\ Looked(r)'
              /\ cacheKey'[r] \in DOMAIN cache
              /\ now - cache[cacheKey'[r]].timestamp > CACHE_TTL_MS)
           => /\ sawExpired'[r]
              /\ pc'[r] = "awaiting"
              /\ cacheKey'[r] \notin DOMAIN cache'
        /\ (ReturnStep(r) /\ sawExpired[r]) =>
              \/ /\ resp'[r].status = 200
                 /\ ~resp'[r].body.cached
                 /\ resp'[r].body.endTime = now
                 /\ cacheKey[r] \in DOMAIN cache'
                 /\ cache'[cacheKey[r]].timestamp = now
                 /\ SameExcept(cache'[cacheKey[r]].data, resp'[r].body,
                               {"cached", "cacheAge", "fetchDuration"})
              \/ /\ resp'[r].status = 500
                 /\ cache' = cache]_vars

\* a request found an entry of twice the TTL's age, recomputed and stored
C4_Witness ==
    \E r \in Reqs :
        /\ sawExpired[r] /\ IsMiss(r)
        /\ cacheKey[r] \in DOMAIN cache
        /\ cache[cacheKey[r]].timestamp = now
        /\ now > CACHE_TTL_MS

\* C5: an entry leaves the Map only in a DELETE or in the lookup of its own
\* key that finds it older than the TTL (and that lookup is a miss); an entry
\* changes only when a request stores under its key.  Expired entries under
\* other keys stay.
C5_LazyExpiry ==
    [][/\ \A k \in DOMAIN cache :
            /\ k \notin DOMAIN cache' =>
                  \/ cache' = EmptyCache /\ storedKeys' = {}
                  \/ \E r \in Reqs :
                        /\ HandleStep(r) /\ cacheKey'[r] = k
                        /\ now - cache[k].timestamp > CACHE_TTL_MS
                        /\ pc'[r] = "awaiting"
            /\ (k \in DOMAIN cache' /\ cache'[k] # cache[k]) =>
                  \E r \in Reqs : ReturnStep(r) /\ cacheKey[r] = k
       /\ \A r \in Reqs :
            (HandleStep(r) /\ Looked(r)' /\ cacheKey'[r] \in DOMAIN cache
                /\ now - cache[cacheKey'[r]].timestamp > CACHE_TTL_MS)
            => cacheKey'[r] \notin DOMAIN cache']_vars

\* an entry older than the TTL is still in the Map after a request has looked
\* up another key at a time the entry was already expired
C5_Witness ==
    \E k \in DOMAIN cache, r \in Reqs :
        /\ Looked(r) /\ cacheKey[r] # k
        /\ arrivedAt[r] - cache[k].timestamp > CACHE_TTL_MS

\* C6: every entry of the Map is a {data, timestamp} pair that one answered
\* miss for that key stored whole (its result, at the time it answered), and
\* every hit carries the whole result of one answered miss for the same key.
C6_NoTornEntry ==
    /\ \A k \in DOMAIN cache :
          /\ DOMAIN cache[k] = {"data", "timestamp"}
          /\ \E w \in Reqs :
                /\ IsMiss(w) /\ cacheKey[w] = k
                /\ SameExcept(cache[k].data, resp[w].body,
                              {"cached", "cacheAge", "fetchDuration"})
                /\ cache[k].timestamp = startTime[w] + resp[w].body.fetchDuration
    /\ \A r \in Reqs :
          IsHit(r) =>
             \E w \in Reqs :
                /\ IsMiss(w) /\ cacheKey[w] = cacheKey[r]
                /\ SameExcept(resp[r].body, resp[w].body,
                              {"cached", "cacheAge", "fetchDuration"})

\* two requests for one key were in the await together and both have stored
C6_Witness ==
    \E r1, r2 \in Reqs :
        /\ r1 < r2 /\ IsMiss(r1) /\ IsMiss(r2)
        /\ cacheKey[r1] = cacheKey[r2]
        /\ arrivedAt[r2] = arrivedAt[r1] /\ ~delSince[r1]
        /\ cacheKey[r1] \in DOMAIN cache

\* C7: a request whose range or bucketSize is not an accepted value is
\* answered in the step that takes it up, with status 400 and the list of
\* accepted values, without a lookup (no key, no eviction), without a change
\* of the Map and without entering the await; its answer never changes.
C7_InvalidRejectedFirst ==
    [][\A r \in Reqs :
        /\ (HandleStep(r)
              /\ (\/ params'[r].range \notin {Str24h, Str7d, StrAll}
                  \/ params'[r].bucketSize \notin {Str30min, StrHour, StrSession}))
           => /\ pc'[r] = "done"
              /\ resp'[r].status = 400
              /\ resp'[r].body.validValues =
                    IF params'[r].range \notin {Str24h, Str7d, StrAll}
                    THEN <<Str24h, Str7d, StrAll>>
                    ELSE <<Str30min, StrHour, StrSession>>
              /\ cacheKey'[r] = Undefined
              /\ cache' = cache
        /\ (pc[r] = "done" /\ resp[r].status = 400) =>
              (pc'[r] = "done" /\ resp'[r] = resp[r])]_vars

\* a request with a bad value was rejected while the Map held an entry
\* that was older than the TTL
C7_Witness ==
    \E r \in Reqs, k \in DOMAIN cache :
        /\ Answered(r) /\ resp[r].status = 400
        /\ params[r].bucketSize = StrDay
        /\ arrivedAt[r] - cache[k].timestamp > CACHE_TTL_MS

\* C8: a DELETE leaves the Map empty and reports as clearedEntries the number
\* of entries the Map held before it; a request taken up for a key that has
\* not been stored since the last DELETE misses.
C8_DeleteClearsAll ==
    [][/\ Delete =>
            /\ cache' = EmptyCache
            /\ delResp'.clearedEntries = Cardinality(DOMAIN cache)
       /\ \A r \in Reqs :
            (HandleStep(r) /\ Looked(r)' /\ cacheKey'[r] \notin storedKeys)
            => pc'[r] = "awaiting"]_vars

\* a DELETE removed an entry, and a request for that key taken up after it
\* (at the same clock as the request that had stored it) missed
C8_Witness ==
    /\ delResp.success /\ delResp.clearedEntries >= 1
    /\ \E r1, r2 \in Reqs :
          /\ IsMiss(r1) /\ delSince[r1]
          /\ Handled(r2) /\ Looked(r2) /\ ~delSince[r2]
          /\ cacheKey[r2] = cacheKey[r1]
          /\ ~IsHit(r2)
          /\ arrivedAt[r2] = startTime[r1] + resp[r1].body.fetchDuration

-----------------------------------------------------------------------------
(* Properties of the orchestration endpoint *)

OrchAnswered == orchResp.status = 200

\* C9: in an answer of GET /api/orchestration every registered agent is
\* listed, and its active flag is true exactly when one of the reservation
\* rows is the agent's, is not released and expires later than now, or one of
\* the tasks is assigned to the agent and is in_progress.
C9_ActiveIffEitherSignal ==
    OrchAnswered =>
        /\ Len(orchResp.body.agents) = Len(agents)
        /\ \A i \in DOMAIN agents :
              LET a == orchResp.body.agents[i] IN
              /\ a.name = agents[i].name
              /\ a.active <=>
                    \/ \E j \in DOMAIN reservations :
                          /\ reservations[j].agent_name = a.name
                          /\ reservations[j].released_ts = Nil
                          /\ reservations[j].expires_ts > now
                    \/ \E k \in DOMAIN tasks :
                          /\ tasks[k].assignee = a.name
                          /\ tasks[k].status = "in_progress"

\* an agent without a reservation is active by its in_progress task, next to
\* an agent that is not active although it holds a reservation that would
\* expire later but is released
C9_Witness ==
    /\ OrchAnswered
    /\ \E i, j \in DOMAIN orchResp.body.agents :
          /\ orchResp.body.agents[i].active
          /\ orchResp.body.agents[i].reservation_count = 0
          /\ orchResp.body.agents[i].in_progress_tasks = 1
          /\ ~orchResp.body.agents[j].active
          /\ orchResp.body.agents[j].reservation_count = 1
          /\ reservations[1].expires_ts > now
          /\ reservations[1].released_ts # Nil

\* C10: in an answer over the task list, the four status counts sum to
\* task_stats.total, the five priority counts sum to task_stats.total, and
\* total is the length of the list.
C10_StatsSumToTotal ==
    OrchAnswered =>
        LET s == orchResp.body.task_stats IN
        /\ s.total = Len(tasks)
        /\ s.open + s.in_progress + s.blocked + s.closed = s.total
        /\ s.by_priority.p0 + s.by_priority.p1 + s.by_priority.p2
              + s.by_priority.p3 + s.by_priority.p4 = s.total

\* an answer over two tasks of different status and different priority
C10_Witness ==
    /\ OrchAnswered
    /\ orchResp.body.task_stats.total = 2
    /\ orchResp.body.task_stats.open = 1
    /\ orchResp.body.task_stats.closed = 1
    /\ orchResp.body.task_stats.by_priority.p0 = 1
    /\ orchResp.body.task_stats.by_priority.p4 = 1

\* C11: when one reader has thrown, the answer still carries what the other
\* readers returned: the tasks and their statistics unless getTasks threw, the
\* reservations unless getReservations threw, the agents unless getAgents
\* threw.
C11_OneReaderFailsOthersKept ==
    \A reader \in Readers :
        (orchResp.status # 0 /\ "error" \in DOMAIN orchResp.body
            /\ orchResp.body.message = ErrorMessage(reader))
        => /\ reader # "getTasks" =>
                 /\ orchResp.body.tasks = Slice(tasks, TASKS_SLICE)
                 /\ orchResp.body.task_stats.total = Len(tasks)
           /\ reader # "getReservations" =>
                 orchResp.body.reservations = reservations
           /\ reader # "getAgents" =>
                 /\ Len(orchResp.body.agents) = Len(agents)
                 /\ \A i \in DOMAIN agents :
                       orchResp.body.agents[i].name = agents[i].name

\* the body of a successful answer over empty sources at clock t
EmptyOkBody(t) == OrchResp(<<>>, <<>>, <<>>, [a \in {} |-> <<>>], t).body

\* C12: a 5xx body of GET /api/orchestration has exactly the top-level fields
\* of a successful answer over empty sources (meta among them) plus error and
\* message, and its data fields have the values of that empty answer.
C12_ErrorShapeIsEmptyOk ==
    orchResp.status >= 500 =>
        /\ DOMAIN orchResp.body = DOMAIN EmptyOkBody(now) \cup {"error", "message"}
        /\ \A f \in DOMAIN EmptyOkBody(now) \ {"timestamp", "meta"} :
              f \in DOMAIN orchResp.body /\ orchResp.body[f] = EmptyOkBody(now)[f]

\* C13: in an answer, unassigned_tasks holds only tasks of the list that have
\* no assignee and status open, and it holds every such task of the list, once
\* each.
C13_UnassignedExactlyOpenFree ==
    OrchAnswered =>
        LET u == orchResp.body.unassigned_tasks IN
        /\ \A j \in DOMAIN u :
              /\ u[j].assignee = Null /\ u[j].status = "open"
              /\ \E i \in DOMAIN tasks : tasks[i] = u[j]
        /\ Len(u) = Cardinality({i \in DOMAIN tasks :
                         tasks[i].assignee = Null /\ tasks[i].status = "open"})

\* an answer that lists one task as unassigned and leaves out another that
\* has no assignee either but is not open
C13_Witness ==
    /\ OrchAnswered
    /\ Len(orchResp.body.unassigned_tasks) = 1
    /\ \E i \in DOMAIN tasks :
          tasks[i].assignee = Null /\ tasks[i].status = "blocked"

\* the tasks of the list that have a dependency: positions, in list order
HasDeps(t) ==
    \/ "depends_on" \in DOMAIN t /\ t.depends_on # <<>>
    \/ "blocked_by" \in DOMAIN t /\ t.blocked_by # <<>>
DepPositions == {i \in DOMAIN tasks : HasDeps(tasks[i])}
NthDepPosition(j) ==
    CHOOSE i \in DepPositions : Cardinality({k \in DepPositions : k < i}) = j - 1

\* C14: in an answer, tasks_with_deps is the list of the tasks whose
\* depends_on or blocked_by is non-empty (one of them suffices), in the order
\* of the task list, and tasks_with_deps_count is its length.
C14_DepsUnionInOrder ==
    OrchAnswered =>
        LET w == orchResp.body.tasks_with_deps IN
        /\ orchResp.body.tasks_with_deps_count = Len(w)
        /\ Len(w) = Cardinality(DepPositions)
        /\ \A j \in DOMAIN w : w[j] = tasks[NthDepPosition(j)]

\* an answer over a task that only has depends_on followed by a task that
\* only has blocked_by: both are listed, in that order
C14_Witness ==
    /\ OrchAnswered
    /\ Len(tasks) = 2
    /\ "depends_on" \in DOMAIN tasks[1] /\ tasks[1].depends_on # <<>>
    /\ "blocked_by" \notin DOMAIN tasks[1]
    /\ "blocked_by" \in DOMAIN tasks[2] /\ tasks[2].blocked_by # <<>>
    /\ "depends_on" \in DOMAIN tasks[2] /\ tasks[2].depends_on = <<>>
    /\ orchResp.body.tasks_with_deps_count = 2
    /\ orchResp.body.tasks_with_deps[1] = tasks[1]

\* the run of bd that POST p started, if any
RunsOf(p) == {i \in DOMAIN bdRuns : bdRuns[i].post = p}

\* C15: a POST whose body lacks taskId or agentName is answered 400 in the
\* step that takes it up and starts no bd run; bd runs only for complete
\* bodies, once per POST, with the body's taskId and agentName; when the run
\* fails the answer is 500 with the error message of the run; when it
\* succeeds the answer is 200 with success true, the body's taskId and
\* agentName and the run's stdout as output.
C15_PostAnswers ==
    [][\A p \in Posts :
        /\ (postPc[p] = "new" /\ postPc'[p] # "new" /\ postBody'[p] # Malformed
              /\ (\/ postBody'[p].taskId \in {Missing, ""}
                  \/ postBody'[p].agentName \in {Missing, ""}))
           => /\ postPc'[p] = "done"
              /\ postResp'[p].status = 400
              /\ bdRuns' = bdRuns
        /\ \A i \in DOMAIN bdRuns' :
              bdRuns'[i].post = p =>
                 /\ postBody'[p] # Malformed
                 /\ postBody'[p].taskId \notin {Missing, ""}
                 /\ postBody'[p].agentName \notin {Missing, ""}
                 /\ bdRuns'[i].command =
                       BdCommand(postBody'[p].taskId, postBody'[p].agentName)
                 /\ \A j \in DOMAIN bdRuns' : bdRuns'[j].post = p => j = i
        /\ (postPc[p] = "running" /\ postPc'[p] = "done") =>
              \E i \in DOMAIN bdRuns' :
                 /\ bdRuns'[i].post = p
                 /\ \/ /\ "error" \in DOMAIN bdRuns'[i]
                       /\ postResp'[p].status = 500
                       /\ postResp'[p].body.message = bdRuns'[i].error
                    \/ /\ "stdout" \in DOMAIN bdRuns'[i]
                       /\ postResp'[p].status = 200
                       /\ postResp'[p].body.success
                       /\ postResp'[p].body.taskId = postBody[p].taskId
                       /\ postResp'[p].body.agentName = postBody[p].agentName
                       /\ postResp'[p].body.output = bdRuns'[i].stdout]_vars

\* one POST without agentName was refused, another was answered with the
\* output of the one bd run there was
C15_Witness ==
    \E p1, p2 \in Posts :
        /\ postResp[p1].status = 400
        /\ postBody[p1] # Malformed
        /\ postBody[p1].taskId = "jat-1" /\ postBody[p1].agentName = Missing
        /\ postResp[p2].status = 200
        /\ postResp[p2].body.output = "Updated"
        /\ Len(bdRuns) = 1 /\ RunsOf(p1) = {} /\ RunsOf(p2) = {1}

\* the timestamp of a listed task: closed_at, else updated_at, else created_at
Stamp(task) ==
    IF "closed_at" \in DOMAIN task THEN task.closed_at
    ELSE IF "updated_at" \in DOMAIN task THEN task.updated_at
    ELSE task.created_at

\* the positions in bd's list of the tasks the result carries
Carried == {i \in DOMAIN bdOut.rows :
              \E k \in DOMAIN actResult.value :
                 actResult.value[k].taskId = bdOut.rows[i].id}

PerMillion(tokens, cents) ==
    DMul(DoubleOfRatio(tokens, 1000000), DoubleOfRatio(cents, 100))

\* the sum as the claim writes it: input, cache_creation, cache_read, output
SumAsWritten(u) ==
    DAdd(DAdd(DAdd(PerMillion(u.input_tokens, 300),
                   PerMillion(u.cache_creation_input_tokens, 375)),
              PerMillion(u.cache_read_input_tokens, 30)),
         PerMillion(u.output_tokens, 1500))

\* the usage with n tokens of one class f and none of the others
OnlyClass(f, n) ==
    [g \in {"input_tokens", "cache_creation_input_tokens",
            "cache_read_input_tokens", "output_tokens"} |->
        IF g = f THEN n ELSE 0]

\* the figures of the claim: a million tokens of one class cost the rate of
\* the class, no tokens cost 0, 100 input plus 200 output tokens cost 0.0033
CostFigures ==
    LET u == costCall.usage
        cost == costCall.cost
    IN  /\ u = OnlyClass("input_tokens", 1000000) => cost = DoubleOfRatio(300, 100)
        /\ u = OnlyClass("cache_creation_input_tokens", 1000000)
              => cost = DoubleOfRatio(375, 100)
        /\ u = OnlyClass("cache_read_input_tokens", 1000000)
              => cost = DoubleOfRatio(30, 100)
        /\ u = OnlyClass("output_tokens", 1000000) => cost = DoubleOfRatio(1500, 100)
        /\ u = OnlyClass("input_tokens", 0) => cost = Zero
        /\ u = [OnlyClass("input_tokens", 100) EXCEPT !.output_tokens = 200]
              => cost = DoubleOfRatio(33, 10000)

\* the double after a, for a > 0: one unit in the last of its 53 bits more
Succ(a) ==
    LET pad == 53 - Len(a.m)
    IN  Normal(BitsAdd(ShiftLeft(a.m, pad), <<1>>), a.e - pad)

RECURSIVE SumFrom(_, _, _)
SumFrom(lines, f, i) ==
    IF i > Len(lines) THEN 0
    ELSE (IF lines[i].json THEN Tokens(UsageOf(lines[i]), f) ELSE 0)
         + SumFrom(lines, f, i + 1)

\* C17: a call that has returned gives null exactly when the log could not
\* be read; for a readable log each of the four totals is the sum of its
\* class over the lines that parse as JSON, a missing usage field counting
\* 0, so lines after one that does not parse are counted too; the total is
\* the sum of the four; the fixtures of the unit tests give their figures.
C17_TotalsOverParsableLines ==
    usageCall.pc = "done" =>
      /\ usageCall.result = Nil <=> usageCall.log = Nil
      /\ usageCall.log # Nil =>
            LET lines == usageCall.log[1]
                tokens == usageCall.result[1].tokens
            IN  /\ tokens.input = SumFrom(lines, "input_tokens", 1)
                /\ tokens.cache_creation
                      = SumFrom(lines, "cache_creation_input_tokens", 1)
                /\ tokens.cache_read = SumFrom(lines, "cache_read_input_tokens", 1)
                /\ tokens.output = SumFrom(lines, "output_tokens", 1)
                /\ tokens.total = tokens.input + tokens.cache_creation
                                    + tokens.cache_read + tokens.output
                /\ lines = MOCK_JSONL_VALID =>
                      tokens = [input |-> 450, cache_creation |-> 150,
                                cache_read |-> 150, output |-> 750, total |-> 1500]
                /\ lines = MOCK_JSONL_MALFORMED =>
                      tokens.input = 300 /\ tokens.output = 0
                /\ lines = MOCK_JSONL_MISSING_USAGE => tokens.total = 0
                /\ lines = <<>> => tokens.total = 0

\* the log with a line that is not JSON between two entries was parsed: the
\* result is not null and counts both entries
C17_Witness ==
    /\ usageCall.pc = "done"
    /\ usageCall.log = Some(MOCK_JSONL_MALFORMED)
    /\ usageCall.result # Nil
    /\ usageCall.result[1].tokens.input = 300

\* the session files a call of getAgentUsage saw that are the agent's, could
\* be read and fall in the range
CountedSessions ==
    IF ~agentCall.listed THEN {}
    ELSE {i \in DOMAIN sessionFiles :
            /\ sessionFiles[i].agent = agentCall.agentName
            /\ sessionFiles[i].log # Nil
            /\ agentCall.range = "all" \/ sessionFiles[i].day = agentCall.range}

\* the tokens of all classes in the parsable lines of the sessions in set
RECURSIVE TotalOver(_)
TotalOver(set) ==
    IF set = {} THEN 0
    ELSE LET i == CHOOSE i \in set : TRUE
             lines == sessionFiles[i].log[1]
         IN  SumFrom(lines, "input_tokens", 1)
             + SumFrom(lines, "cache_creation_input_tokens", 1)
             + SumFrom(lines, "cache_read_input_tokens", 1)
             + SumFrom(lines, "output_tokens", 1)
             + TotalOver(set \ {i})

\* C18: a call of getAgentUsage does not throw; its sessionCount is the
\* number of the agent's sessions in the range whose log could be read, its
\* total_tokens is the sum over exactly those sessions, and with no such
\* session sessionCount, total_tokens and cost are 0.
C18_UsageOverParsedSessions ==
    agentCall.done =>
      /\ ~agentCall.threw
      /\ agentCall.usage.sessionCount = Cardinality(CountedSessions)
      /\ agentCall.usage.total_tokens = TotalOver(CountedSessions)
      /\ CountedSessions = {} =>
            /\ agentCall.usage.sessionCount = 0
            /\ agentCall.usage.total_tokens = 0
            /\ agentCall.usage.cost = Zero

\* the agent has a session that parsed and one whose log could not be read:
\* one session and its 1500 tokens are reported
C18_Witness ==
    /\ agentCall.done
    /\ agentCall.listed
    /\ Len(sessionFiles) = 2
    /\ \A i \in DOMAIN sessionFiles : sessionFiles[i].agent = agentCall.agentName
    /\ sessionFiles[1].log = Some(MOCK_JSONL_VALID)
    /\ sessionFiles[2].log = Nil
    /\ agentCall.usage.sessionCount = 1
    /\ agentCall.usage.total_tokens = 1500

\* the tokens of the buckets lo..hi of a series
RECURSIVE BucketTokens(_, _, _)
BucketTokens(data, lo, hi) ==
    IF lo > hi THEN 0
    ELSE IF lo = hi THEN data[lo].tokens
    ELSE LET mid == (lo + hi) \div 2
         IN  BucketTokens(data, lo, mid) + BucketTokens(data, mid + 1, hi)

\* the positions of the records whose timestamp parses and lies in the
\* range of the call: the last 24 hours, the last 7 days, or all up to now
RequestedRecords ==
    {i \in DOMAIN usageRecords :
        LET t == usageRecords[i].timestamp
        IN  /\ t # Nil
            /\ t[1] <= 401
            /\ seriesCall.range = "24h" => t[1] >= 401 - 48
            /\ seriesCall.range = "7d" => t[1] >= 401 - 7 * 48}

\* the tokens of all classes of the records at the positions in set
RECURSIVE ClassTokens(_)
ClassTokens(set) ==
    IF set = {} THEN 0
    ELSE LET i == CHOOSE i \in set : TRUE
             u == usageRecords[i].usage
         IN  u.input_tokens + u.cache_creation_input_tokens
             + u.cache_read_input_tokens + u.output_tokens
             + ClassTokens(set \ {i})

\* C20: the tokens of all buckets of a series add up to the tokens of all
\* four classes of the records whose timestamp lies in the requested range;
\* a record outside the range or without a timestamp that parses is in no
\* bucket (each bucket holds the tokens of requested records only: those of
\* its half hour or hour, or those of its session).
C20_BucketsConserveTokens ==
    seriesCall.done =>
      LET data == seriesCall.result.data
          w == IF seriesCall.bucketSize = "30min" THEN 1 ELSE 2
      IN  /\ BucketTokens(data, 1, Len(data)) = ClassTokens(RequestedRecords)
          /\ \A k \in DOMAIN data :
                data[k].tokens =
                   ClassTokens({i \in RequestedRecords :
                      IF seriesCall.bucketSize = "session"
                      THEN usageRecords[i].sessionId = data[k].sessionId
                      ELSE /\ data[k].timestamp <= usageRecords[i].timestamp[1]
                           /\ usageRecords[i].timestamp[1] < data[k].timestamp + w})

\* an hourly series of the last 24 hours was made from a record just before
\* the range, in the hour the range starts in, and a record in the range:
\* only the second is in a bucket
C20_Witness ==
    /\ seriesCall.done
    /\ seriesCall.range = "24h" /\ seriesCall.bucketSize = "hour"
    /\ Len(usageRecords) = 2
    /\ usageRecords[1].timestamp = Some(352)
    /\ usageRecords[2].timestamp = Some(353)
    /\ seriesCall.result.data[1].timestamp = 352
    /\ seriesCall.result.data[1].tokens = RecordTokens(usageRecords[2])
    /\ seriesCall.result.totalTokens = RecordTokens(usageRecords[2])

\* the start of the span a series of the call has to cover: the start of the
\* range, or for "all" the earliest requested record
SpanStart ==
    IF seriesCall.range = "24h" THEN 401 - 48
    ELSE IF seriesCall.range = "7d" THEN 401 - 7 * 48
    ELSE LET i == CHOOSE i \in RequestedRecords : \A j \in RequestedRecords :
                     usageRecords[i].timestamp[1] <= usageRecords[j].timestamp[1]
         IN  usageRecords[i].timestamp[1]

\* the requested records of the half-open interval [start, start + w)
RecordsIn(start, w) ==
    {i \in RequestedRecords : /\ start <= usageRecords[i].timestamp[1]
                              /\ usageRecords[i].timestamp[1] < start + w}

\* C21: for the bucket sizes 30min and hour the buckets of a series are in
\* ascending order of their start, each bucket starts where the one before
\* it ends (half-open intervals of half an hour or an hour, so none overlap
\* and none is left out), the first holds the start of the span and the last
\* holds now, and a bucket without a record is in the series with zero
\* tokens.
C21_BucketsContiguous ==
    (seriesCall.done /\ seriesCall.bucketSize \in {"30min", "hour"}) =>
      LET data == seriesCall.result.data
          w == IF seriesCall.bucketSize = "30min" THEN 1 ELSE 2
      IN  /\ \A k \in 1..(Len(data) - 1) :
                /\ data[k].timestamp < data[k + 1].timestamp
                /\ data[k + 1].timestamp = data[k].timestamp + w
          /\ \A k \in DOMAIN data :
                RecordsIn(data[k].timestamp, w) = {} => data[k].tokens = 0
          /\ data # <<>> =>
                /\ data[1].timestamp <= SpanStart
                /\ SpanStart < data[1].timestamp + w
                /\ data[Len(data)].timestamp <= 401
                /\ 401 < data[Len(data)].timestamp + w
          /\ RequestedRecords # {} => data # <<>>

\* an hourly series of the last 24 hours with one record, at the start of
\* the range: 25 buckets, the first with the record's tokens, all others
\* empty and each one hour after the one before
C21_Witness ==
    /\ seriesCall.done
    /\ seriesCall.range = "24h" /\ seriesCall.bucketSize = "hour"
    /\ Len(usageRecords) = 1
    /\ usageRecords[1].timestamp = Some(353)
    /\ Len(seriesCall.result.data) = 25
    /\ seriesCall.result.data[1].tokens = RecordTokens(usageRecords[1])
    /\ seriesCall.result.data[2].timestamp = 354
    /\ seriesCall.result.data[2].tokens = 0
    /\ seriesCall.result.data[25].timestamp = 400

-----------------------------------------------------------------------------
(* Properties of fetchAgentMetrics *)

\* C22: the three counts of fetchAgentMetrics add up to totalAgents (every
\* agent is in exactly one of working, idle and sleeping), and
\* loadPercentage is working / total * 100 rounded to the nearest integer,
\* 0 without agents.
C22_ClassesPartitionAgents ==
    (metricsCall.done /\ ~metricsCall.threw) =>
      LET m == metricsCall.metrics
      IN  /\ m.totalAgents = Len(amAgents)
          /\ m.workingAgents + m.idleAgents + m.sleepingAgents = m.totalAgents
          /\ m.loadPercentage =
                IF m.totalAgents = 0 THEN 0
                ELSE (200 * m.workingAgents + m.totalAgents) \div (2 * m.totalAgents)

-----------------------------------------------------------------------------
(* Properties of the error responses *)

\* C23: when the process does not run in development mode, the 500 body of
\* GET /api/orchestration has no stack field, and neither has the 500 body
\* of GET /api/agents/sparkline.
C23_StackOnlyInDevelopment ==
    nodeEnv # "development" =>
      /\ orchResp.status = 500 => "stack" \notin DOMAIN orchResp.body
      /\ \A r \in Reqs : resp[r].status = 500 => "stack" \notin DOMAIN resp[r].body

-----------------------------------------------------------------------------
(* Properties of getAgentActivities *)

\* the lines of the agent's activities in the readable activity logs of
\* .claude, as <<file, line>>: lines that parse to an object naming the agent
LoggedLines(a) ==
    {fl \in (DOMAIN claudeDir.files) \X (1..(MaxLogLines + 1)) :
        LET file == claudeDir.files[fl[1]]
        IN  /\ file.name[2] = "-activity.jsonl"
            /\ file.content # Nil
            /\ fl[2] <= Len(file.content[1])
            /\ file.content[1][fl[2]].json
            /\ "entry" \in DOMAIN file.content[1][fl[2]]
            /\ "agent" \in DOMAIN file.content[1][fl[2]].entry
            /\ file.content[1][fl[2]].entry.agent = a}

LoggedActivity(fl) == claudeDir.files[fl[1]].content[1][fl[2]].entry

\* the day of an activity, as a number
Day(activity) ==
    IF activity.ts = "2025-11-20" THEN 20
    ELSE IF activity.ts = "2025-11-21" THEN 21 ELSE 22

\* how many activities of the day the newest 10 of the agent's lines hold
NewestOfDay(a, day) ==
    LET newer == Cardinality({fl \in LoggedLines(a) : Day(LoggedActivity(fl)) > day})
        ofDay == Cardinality({fl \in LoggedLines(a) : Day(LoggedActivity(fl)) = day})
    IN  IF newer >= 10 THEN 0
        ELSE IF ofDay <= 10 - newer THEN ofDay ELSE 10 - newer

\* C24: the call of getAgentActivities in GET /api/orchestration resolves to
\* a mapping whatever .claude holds; it is empty when .claude is missing; the
\* agents in it are those with a line in a readable activity log, and an
\* agent's list holds the newest of its lines, 10 at most, newest first,
\* whatever unreadable files, unparsable lines and lines without an agent
\* lie among them; an agent's activities in the response are that list and
\* its current_activity is the first of it, null for an agent without one.
C24_ActivitiesPerAgent ==
    orchResp.status = 200 /\ logsCall.done =>
      LET by == logsCall.activities
      IN  /\ claudeDir.kind # "dir" => by = [a \in {} |-> <<>>]
          /\ DOMAIN by = {a \in {"A1", "A2"} : LoggedLines(a) # {}}
          /\ \A a \in DOMAIN by :
                /\ Len(by[a]) <= 10
                /\ \A k \in 1..(Len(by[a]) - 1) : Day(by[a][k]) >= Day(by[a][k + 1])
                /\ \A k \in DOMAIN by[a] :
                      \E fl \in LoggedLines(a) : LoggedActivity(fl) = by[a][k]
                /\ \A day \in 20..22 :
                      Cardinality({k \in DOMAIN by[a] : Day(by[a][k]) = day})
                         = NewestOfDay(a, day)
          /\ \A i \in DOMAIN orchResp.body.agents :
                LET agent == orchResp.body.agents[i]
                IN  IF agent.name \in DOMAIN by
                    THEN /\ agent.activities = by[agent.name]
                         /\ agent.current_activity = Some(by[agent.name][1])
                    ELSE /\ agent.activities = <<>>
                         /\ agent.current_activity = Nil

\* .claude holds a log of 11 lines of A1 and a mixed log: A1's list holds 10
\* of its 13 lines, the newest of them from the second file first, and A2,
\* whose line lies behind an unparsable line and a null, has its one line
C24_Witness ==
    /\ orchResp.status = 200 /\ logsCall.done
    /\ Len(claudeDir.files) = 2
    /\ claudeDir.files[1].content = Some(LongLog(11))
    /\ claudeDir.files[2].content # Nil
    /\ Len(claudeDir.files[2].content[1]) = 7
    /\ Cardinality(LoggedLines("A1")) = 13
    /\ Len(logsCall.activities["A1"]) = 10
    /\ logsCall.activities["A1"][5].preview = <<"edit", 0>>
    /\ orchResp.body.agents[1].current_activity = Some(LoggedActivity(<<1, 1>>))
    /\ Len(logsCall.activities["A2"]) = 1
    /\ orchResp.body.agents[2].current_activity = Some(LoggedActivity(<<2, 5>>))

-----------------------------------------------------------------------------
(* Properties of the task list of GET /api/orchestration *)

\* the positions in getTasks' list of the tasks a list of the response names
Named(list) == {i \in DOMAIN tasks : \E k \in DOMAIN list : list[k].id = tasks[i].id}

\* C25: `tasks` of the response is the first 100 tasks of getTasks' list in
\* its order (the whole list when it is shorter), while task_stats counts
\* every task of the list, those behind the first 100 too, unassigned_tasks
\* and tasks_with_deps name every open task without assignee and every task
\* with a dependency of the whole list, and an agent's task_count counts all
\* tasks assigned to it.
C25_TasksCappedStatsFull ==
    orchResp.status = 200 =>
      LET body == orchResp.body
          n == Len(tasks)
      IN  /\ Len(body.tasks) = IF n < 100 THEN n ELSE 100
          /\ \A k \in DOMAIN body.tasks : body.tasks[k] = tasks[k]
          /\ body.task_stats.total = n
          /\ body.task_stats.open =
                Cardinality({i \in DOMAIN tasks : tasks[i].status = "open"})
          /\ body.task_stats.by_priority.p0 =
                Cardinality({i \in DOMAIN tasks : tasks[i].priority = 0})
          /\ Named(body.unassigned_tasks) =
                {i \in DOMAIN tasks : tasks[i].assignee = Null /\ tasks[i].status = "open"}
          /\ Len(body.unassigned_tasks) = Cardinality(Named(body.unassigned_tasks))
          /\ Named(body.tasks_with_deps) =
                {i \in DOMAIN tasks : tasks[i].depends_on # <<>>}
          /\ body.tasks_with_deps_count = Cardinality(Named(body.tasks_with_deps))
          /\ \A j \in DOMAIN body.agents :
                body.agents[j].task_count =
                   Cardinality({i \in DOMAIN tasks :
                                   tasks[i].assignee = body.agents[j].name})

\* getTasks returned 102 tasks: the response carries 100, counts 102, and
\* names the 101st as unassigned and with a dependency and counts the 102nd
\* for its agent
C25_Witness ==
    /\ orchResp.status = 200
    /\ Len(tasks) = 102
    /\ Len(orchResp.body.tasks) = 100
    /\ orchResp.body.task_stats.total = 102
    /\ 101 \in Named(orchResp.body.unassigned_tasks)
    /\ 101 \in Named(orchResp.body.tasks_with_deps)
    /\ 101 \notin Named(orchResp.body.tasks)
    /\ tasks[102].assignee = "A1"
    /\ orchResp.body.agents[1].task_count = 34

-----------------------------------------------------------------------------
(* Properties of getProjectFromTaskId *)

\* the character in lower case
LowerOf(c) == IF c = "A" THEN "a" ELSE IF c = "J" THEN "j" ELSE IF c = "T" THEN "t" ELSE c

\* the string in lower case
ToLowerCase(str) == [i \in DOMAIN str |-> LowerOf(str[i])]

\* the position of the last hyphen of an ID, 0 without one
LastHyphen(taskId) ==
    LET hyphens == {i \in DOMAIN taskId : taskId[i] = "-"}
    IN  IF hyphens = {} THEN 0 ELSE CHOOSE i \in hyphens : \A j \in hyphens : j <= i

\* C26: for an ID {project}-{hash} (a project of letters, digits,
\* underscores and inner hyphens, a hash of letters and digits) the result is
\* the project in lower case, so 'my-app-xyz' gives 'my-app', 'my_proj-abc'
\* gives 'my_proj' and 'JAT-123' gives 'jat'; the result is null for an ID
\* without a hyphen, with nothing in front of it or nothing behind it.
C26_ProjectLowerCased ==
    projectCall.done /\ projectCall.taskId # Undefined =>
      LET taskId == projectCall.taskId
          h == LastHyphen(taskId)
      IN  /\ (h = 0 \/ h = 1 \/ h = Len(taskId)) => projectCall.project = Nil
          /\ projectCall.project # Nil =>
                projectCall.project = Some(ToLowerCase(SubSeq(taskId, 1, h - 1)))
          /\ taskId = <<"m", "y", "-", "a", "p", "p", "-", "x", "y", "z">>
                => projectCall.project = Some(<<"m", "y", "-", "a", "p", "p">>)
          /\ taskId = <<"m", "y", "_", "p", "r", "o", "j", "-", "a", "b", "c">>
                => projectCall.project = Some(<<"m", "y", "_", "p", "r", "o", "j">>)
          /\ taskId = <<"J", "A", "T", "-", "1", "2", "3">>
                => projectCall.project = Some(<<"j", "a", "t">>)

-----------------------------------------------------------------------------
(* Properties of concurrent requests to GET /api/agents/sparkline *)

\* C27: a request taken up while another request for the same key is in its
\* await finds nothing of that request under the key: unless the key holds
\* an unexpired entry that a third request has stored, it misses as well and
\* goes into its own source read.  Every request that comes back from its
\* read with a result stores it under its key with the current timestamp,
\* over whatever entry another request has stored there and whether or not
\* a DELETE was handled since it was taken up, and answers cached: false.
C27_MissesNotCoalesced ==
    [][\A r \in Reqs :
        /\ (/\ HandleStep(r) /\ Looked(r)'
            /\ \E r1 \in Reqs \ {r} : pc[r1] = "awaiting" /\ cacheKey[r1] = cacheKey'[r]
            /\ ~(/\ cacheKey'[r] \in DOMAIN cache
                 /\ now - cache[cacheKey'[r]].timestamp <= CACHE_TTL_MS))
           => /\ pc'[r] = "awaiting"
              /\ startTime'[r] = now
              /\ cacheKey'[r] \notin DOMAIN cache'
        /\ (ReturnStep(r) /\ resp'[r].status = 200) =>
              /\ ~resp'[r].body.cached
              /\ cacheKey[r] \in DOMAIN cache'
              /\ cache'[cacheKey[r]].timestamp = now
              /\ cache'[cacheKey[r]].data.endTime = now
              /\ SameExcept(cache'[cacheKey[r]].data, resp'[r].body,
                            {"cached", "cacheAge", "fetchDuration"})]_vars

\* two requests for one key were in the await together; a DELETE was handled
\* (it found the Map empty), the second came back and stored, and one clock
\* step later the first came back: the key's entry is the result of the first
C27_Witness ==
    /\ IsMiss(1) /\ IsMiss(2)
    /\ cacheKey[1] = cacheKey[2]
    /\ arrivedAt[2] = arrivedAt[1]
    /\ delSince[1] /\ delSince[2]
    /\ delResp.success /\ delResp.clearedEntries = 0
    /\ resp[2].body.endTime < resp[1].body.endTime
    /\ cacheKey[1] \in DOMAIN cache
    /\ cache[cacheKey[1]].data.endTime = resp[1].body.endTime
    /\ cache[cacheKey[1]].timestamp > arrivedAt[2]

\* C28: the step in which a request comes back from a source read that threw
\* answers 500 and leaves the Map as it is: no entry is made, replaced or
\* given a new timestamp.  The step that took the request up went into the
\* read leaving every entry under another key as it was and adding none; of
\* the request's own key it removed the entry if there was one, which then
\* was older than the TTL.
C28_ThrowLeavesCache ==
    [][\A r \in Reqs :
        /\ (ReturnStep(r) /\ resp'[r].status # 200) =>
              /\ resp'[r].status = 500
              /\ DOMAIN cache' = DOMAIN cache
              /\ \A k \in DOMAIN cache : cache'[k] = cache[k]
        /\ (HandleStep(r) /\ pc'[r] = "awaiting") =>
              /\ DOMAIN cache' = (DOMAIN cache) \ {cacheKey'[r]}
              /\ \A k \in DOMAIN cache' : cache'[k] = cache[k]
              /\ cacheKey'[r] \in DOMAIN cache =>
                    now - cache[cacheKey'[r]].timestamp > CACHE_TTL_MS]_vars

\* a request found the entry that an earlier request had stored under its
\* key older than the TTL, and its source read threw: it is answered 500 and
\* its key has no entry, the evicted one not being put back
C28_Witness ==
    \E r \in Reqs :
        /\ Answered(r) /\ resp[r].status = 500
        /\ sawExpired[r]
        /\ cacheKey[r] \notin DOMAIN cache
        /\ \E w \in Reqs : w < r /\ IsMiss(w) /\ cacheKey[w] = cacheKey[r]
        /\ ~delSince[r]

-----------------------------------------------------------------------------
(* Properties of the command palette *)

\* C29: the task list belongs to the latest query.  Typing another query
\* while a search is pending (within the 300 ms of the debounce) cancels that
\* search, so a pending search is one for the text in the input; the list
\* is empty or the answer to the query in the input, and it is empty while
\* the palette is closed: the response to an earlier query, or one that
\* arrives after close(), neither replaces the list nor fills it again.
C29_TasksOfLatestQuery ==
    /\ searchDebounceTimer # Nil /\ palette.searchQuery # <<>>
          => searchDebounceTimer = Some(palette.searchQuery)
    /\ palette.tasks \in {<<>>, TasksFor(palette.searchQuery)}
    /\ ~palette.isOpen => palette.tasks = <<>>

\* C30: selectedIndex is never negative and never beyond the last listed
\* action: it stays within 0..max(0, filteredActions.length - 1).
C30_SelectedIndexInRange ==
    palette.selectedIndex \in 0..MathMax(0, Len(filteredActions) - 1)

=============================================================================
